---- MODULE Spec2Model ----
(***************************************************************************)
(* A model of the ResultEase ingestion-to-analytics core: the Marks and    *)
(* Percentage value objects, the Result aggregate with its ranking step,   *)
(* the ValidationService rule engine and the AnalyzeResultUseCase          *)
(* workflow.                                                               *)
(*                                                                         *)
(* JavaScript numbers are modelled as pairs <<n, d>>: a finite number is   *)
(* the reduced fraction n/d with d > 0, NaN is <<0,0>>, +Infinity is       *)
(* <<1,0>> and -Infinity is <<-1,0>>.  JavaScript strings are modelled as  *)
(* sequences of one-character strings.                                     *)
(***************************************************************************)
EXTENDS Integers, Sequences, FiniteSets, TLC

VARIABLES
    voCall,          \* value objects: the call made last (operation and arguments)
    voObj,           \* value objects: the object that call returned, or NoObj when it threw
    subjects,        \* Result.subjects: the subject names, in order
    studentResults,  \* Result.studentResults: the Map, as its entries in insertion order
    resState,        \* Result: "none" before the constructor ran, then "ok" or "failed"
    lastOp,          \* Result: the operation that ran last and whether it threw
    batch,           \* validation: the parsed rows handed to validateData
    mappings,        \* validation: the column mappings handed to validateData
    customRules,     \* validation: the custom rules passed to validateData
    vres,            \* validation: the DataValidationResult, or NoResult
    built,           \* the outcome of Result.fromRawData: "none", "ok" or "throw"
    pc,              \* AnalyzeResultUseCase.execute: the step the call is at
    request,         \* AnalyzeResultUseCase.execute: the request
    response,        \* AnalyzeResultUseCase.execute: the response, or NoResult
    headers,         \* ColumnMapper: the header list handed to autoMapColumns
    sampleRows,      \* ColumnMapper: the sample rows handed to autoMapColumns
    mapRuns,         \* ColumnMapper: what the runs of autoMapColumns returned, in order
    workbook,        \* ExcelParser: the workbook handed to parseWorkbook, as its sheets in order
    options,         \* ExcelParser: the ParseOptions of the call
    parseResult,     \* ExcelParser: what parseWorkbook returned, or NoResult
    structure,       \* ValidationService: what validateStructure returned, or NoResult
    calcData,        \* analysis: the raw data handed to Result.fromRawData
    calcResult,      \* analysis: the Result that fromRawData built ([threw, subjects, entries]), or NoResult
    calcOut,         \* analysis: the calculation run last on the Result: its name, its arguments, its value
    applyRows,       \* applyMappings: the rows given
    applyMaps,       \* applyMappings: the mappings given
    applied,         \* applyMappings: what the call returned, or NoResult
    currentUser,     \* MockAuthService.currentUser: the id of the user signed in, or NoUser
    files,           \* MockStorageService.files: the stored files, in insertion order
    quotas,          \* MockStorageService.quotas: the bytes used, per user that has an entry
    uploads,         \* UploadResultUseCase: the responses of the execute calls made, in order
    reports,         \* MockReportRepository.reports: the stored reports, in insertion order
    deleteCall       \* GenerateReportUseCase.deleteReport: the call in flight or returned last

voVars == <<voCall, voObj>>
resVars == <<subjects, studentResults, resState, lastOp>>
valVars == <<batch, mappings, customRules, vres, built>>
exVars == <<pc, request, response>>
mapVars == <<headers, sampleRows, mapRuns>>
parseVars == <<workbook, options, parseResult, structure>>
calcVars == <<calcData, calcResult, calcOut>>
applyVars == <<applyRows, applyMaps, applied>>
portVars == <<currentUser, files, quotas, uploads, reports, deleteCall>>
toolVars == <<mapVars, parseVars, calcVars, applyVars, portVars>>
vars == <<voCall, voObj, subjects, studentResults, resState, lastOp,
          batch, mappings, customRules, vres, built, pc, request, response,
          headers, sampleRows, mapRuns,
          workbook, options, parseResult, structure,
          calcData, calcResult, calcOut,
          applyRows, applyMaps, applied,
          currentUser, files, quotas, uploads, reports, deleteCall>>

NoObj == [kind |-> "none"]
NoUser == "none"
NoResult == [kind |-> "none"]
\* the operation a Result ran last: its name, whether it threw, how many calls of it
\* were made in a row, and whether an argument lacked the marks of some subject
Op(op, threw, n, lacking) == [op |-> op, threw |-> threw, n |-> n, lacking |-> lacking]
NoOp == Op("none", FALSE, 0, FALSE)

(***************************************************************************)
(* JavaScript numbers                                                      *)
(***************************************************************************)
RECURSIVE GCD(_, _)
GCD(a, b) == IF b = 0 THEN a ELSE GCD(b, a % b)

Abs(n) == IF n < 0 THEN -n ELSE n

Rat(n, d) ==
    LET g == GCD(Abs(n), d) IN <<n \div g, d \div g>>

N(i) == <<i, 1>>
NaN == <<0, 0>>
PosInf == <<1, 0>>
NegInf == <<-1, 0>>

IsNaN(x) == x = NaN
IsFinite(x) == x[2] > 0

\* x < y as JavaScript evaluates it: false whenever an operand is NaN
Lt(x, y) ==
    /\ ~IsNaN(x)
    /\ ~IsNaN(y)
    /\ IF IsFinite(x) /\ IsFinite(y) THEN x[1] * y[2] < y[1] * x[2]
       ELSE IF IsFinite(x) THEN y = PosInf
       ELSE IF IsFinite(y) THEN x = NegInf
       ELSE x = NegInf /\ y = PosInf

Gt(x, y) == Lt(y, x)
\* x === y on numbers: NaN equals nothing
StrictEq(x, y) == ~IsNaN(x) /\ ~IsNaN(y) /\ x = y
Le(x, y) == Lt(x, y) \/ StrictEq(x, y)
Ge(x, y) == Le(y, x)

Sign(x) == IF x[1] > 0 THEN 1 ELSE IF x[1] < 0 THEN -1 ELSE 0

\* x + y
Plus(x, y) ==
    IF IsNaN(x) \/ IsNaN(y) THEN NaN
    ELSE IF IsFinite(x) /\ IsFinite(y) THEN Rat(x[1] * y[2] + y[1] * x[2], x[2] * y[2])
    ELSE IF IsFinite(x) THEN y
    ELSE IF IsFinite(y) THEN x
    ELSE IF x = y THEN x ELSE NaN

\* x * y
Times(x, y) ==
    IF IsNaN(x) \/ IsNaN(y) THEN NaN
    ELSE IF IsFinite(x) /\ IsFinite(y) THEN Rat(x[1] * y[1], x[2] * y[2])
    ELSE IF Sign(x) * Sign(y) = 0 THEN NaN
    ELSE IF Sign(x) * Sign(y) > 0 THEN PosInf ELSE NegInf

\* x / y
Div(x, y) ==
    IF IsNaN(x) \/ IsNaN(y) THEN NaN
    ELSE IF IsFinite(x) /\ IsFinite(y)
         THEN IF y[1] = 0
              THEN (IF x[1] = 0 THEN NaN ELSE IF x[1] > 0 THEN PosInf ELSE NegInf)
              ELSE IF y[1] > 0 THEN Rat(x[1] * y[2], x[2] * y[1])
              ELSE Rat(-(x[1] * y[2]), x[2] * (-y[1]))
    ELSE IF IsFinite(y) THEN (IF Sign(x) * (IF y[1] < 0 THEN -1 ELSE 1) > 0 THEN PosInf ELSE NegInf)
    ELSE IF IsFinite(x) THEN N(0)
    ELSE NaN

(***************************************************************************)
(* JavaScript strings                                                      *)
(***************************************************************************)
DigitSeq == <<"0", "1", "2", "3", "4", "5", "6", "7", "8", "9">>
IsDigit(c) == \E i \in DOMAIN DigitSeq : DigitSeq[i] = c
DigitVal(c) == (CHOOSE i \in DOMAIN DigitSeq : DigitSeq[i] = c) - 1

UpperSeq ==
    <<"A", "B", "C", "D", "E", "F", "G", "H", "I", "J", "K", "L", "M",
      "N", "O", "P", "Q", "R", "S", "T", "U", "V", "W", "X", "Y", "Z">>
LowerSeq ==
    <<"a", "b", "c", "d", "e", "f", "g", "h", "i", "j", "k", "l", "m",
      "n", "o", "p", "q", "r", "s", "t", "u", "v", "w", "x", "y", "z">>
\* one character of String.prototype.toLowerCase, over the ASCII letters
LowerChar(c) ==
    IF \E i \in DOMAIN UpperSeq : UpperSeq[i] = c
    THEN LowerSeq[CHOOSE i \in DOMAIN UpperSeq : UpperSeq[i] = c]
    ELSE c
UpperChar(c) ==
    IF \E i \in DOMAIN LowerSeq : LowerSeq[i] = c
    THEN UpperSeq[CHOOSE i \in DOMAIN LowerSeq : LowerSeq[i] = c]
    ELSE c

ToLowerCase(s) == [i \in DOMAIN s |-> LowerChar(s[i])]
ToUpperCase(s) == [i \in DOMAIN s |-> UpperChar(s[i])]

RECURSIVE TrimStart(_)
TrimStart(s) == IF s /= <<>> /\ Head(s) = " " THEN TrimStart(Tail(s)) ELSE s

RECURSIVE TrimEnd(_)
TrimEnd(s) ==
    IF s /= <<>> /\ s[Len(s)] = " " THEN TrimEnd(SubSeq(s, 1, Len(s) - 1)) ELSE s

\* String.prototype.trim
Trim(s) == TrimEnd(TrimStart(s))

\* the index after the digits of s that start at index i
RECURSIVE DigitsEnd(_, _)
DigitsEnd(s, i) == IF i <= Len(s) /\ IsDigit(s[i]) THEN DigitsEnd(s, i + 1) ELSE i

\* the value of the decimal digits s[i..j-1]
RECURSIVE DigitsValue(_, _, _)
DigitsValue(s, i, j) ==
    IF j <= i THEN 0 ELSE DigitsValue(s, i, j - 1) * 10 + DigitVal(s[j - 1])

RECURSIVE Pow10(_)
Pow10(k) == IF k = 0 THEN 1 ELSE 10 * Pow10(k - 1)

InfinityWord == <<"I", "n", "f", "i", "n", "i", "t", "y">>
StartsWithAt(s, i, w) == Len(s) >= i + Len(w) - 1 /\ SubSeq(s, i, i + Len(w) - 1) = w

\* the value of the literal with integer digits s[i0..i1-1] and fraction digits
\* s[f0..i2-1]
DecimalValue(s, i0, i1, f0, i2) ==
    Rat(DigitsValue(s, i0, i1) * Pow10(i2 - f0) + DigitsValue(s, f0, i2), Pow10(i2 - f0))

Signed(neg, x) == IF neg THEN <<-x[1], x[2]>> ELSE x

\* the literal that starts at i0: integer digits up to i1, fraction digits from f0 up
\* to i2 (f0 = i1 = i2 when no dot follows the integer digits)
LiteralAt(s, neg, i0, i1, f0, i2) ==
    IF StartsWithAt(s, i0, InfinityWord)
    THEN <<IF neg THEN NegInf ELSE PosInf, i0 + Len(InfinityWord)>>
    ELSE IF (i1 - i0) + (i2 - f0) = 0 THEN <<NaN, 1>>
    ELSE <<Signed(neg, DecimalValue(s, i0, i1, f0, i2)), i2>>

HasDotAt(s, i) == i <= Len(s) /\ s[i] = "."

FractionAt(s, neg, i0, i1) ==
    LiteralAt(s, neg, i0, i1,
              IF HasDotAt(s, i1) THEN i1 + 1 ELSE i1,
              IF HasDotAt(s, i1) THEN DigitsEnd(s, i1 + 1) ELSE i1)

\* The longest decimal literal (sign, digits, fraction; or Infinity) that starts s:
\* <<value, index after it>>, the value NaN when there is none.  Exponents are not
\* modelled: no input of the model writes one.
DecimalPrefix(s) ==
    FractionAt(s,
               s /= <<>> /\ s[1] = "-",
               IF s /= <<>> /\ (s[1] = "-" \/ s[1] = "+") THEN 2 ELSE 1,
               DigitsEnd(s, IF s /= <<>> /\ (s[1] = "-" \/ s[1] = "+") THEN 2 ELSE 1))

\* parseFloat(s): the number the longest numeric prefix denotes, what follows ignored
ParseFloat(s) == DecimalPrefix(TrimStart(s))[1]

\* Number(t) on a trimmed string t whose longest literal is p: the whole string must
\* be the literal; "" is 0
WholeLiteral(t, p) ==
    IF t = <<>> THEN N(0)
    ELSE IF ~IsNaN(p[1]) /\ p[2] = Len(t) + 1 THEN p[1]
    ELSE NaN

\* Number(s) on a string
StringToNumber(s) == WholeLiteral(Trim(s), DecimalPrefix(Trim(s)))

(***************************************************************************)
(* Marks and Percentage value objects                                      *)
(***************************************************************************)
MinMarks == 0
MaxMarks == 100
MinPercentage == 0
MaxPercentage == 100

AbsentWord == <<"a", "b", "s", "e", "n", "t">>
AbWord == <<"a", "b">>

\* Marks.validateMarks throws.  No isFinite test is written: +Infinity is caught by the
\* upper bound (of a non-total only) and -Infinity by the lower one.
MarksThrowsNoUpperBound(marks, isTotal) ==
    \/ IsNaN(marks)
    \/ Lt(marks, N(MinMarks))

MarksThrows(marks, isTotal) ==
    \/ IsNaN(marks)
    \/ Lt(marks, N(MinMarks))
    \/ (~isTotal /\ Gt(marks, N(MaxMarks)))

\* new Marks(marks, isTotal): the object, or NoObj when the constructor throws
NewMarks(marks, isTotal) ==
    IF MarksThrows(marks, isTotal) THEN NoObj ELSE [kind |-> "Marks", value |-> marks]

\* Marks.fromString, from the parsed number on
MarksFromParsed(parsed) == IF IsNaN(parsed) THEN NoObj ELSE NewMarks(parsed, FALSE)

\* Marks.fromString, on the trimmed string
MarksFromTrimmed(trimmed) ==
    IF trimmed = <<>> \/ ToLowerCase(trimmed) = AbsentWord \/ ToLowerCase(trimmed) = AbWord
    THEN NewMarks(N(0), FALSE)
    ELSE MarksFromParsed(ParseFloat(trimmed))

\* Marks.fromString
MarksFromString(marksString) == MarksFromTrimmed(Trim(marksString))

MarksZero == NewMarks(N(0), FALSE)
MarksTotal(marks) == NewMarks(marks, TRUE)

\* Marks.add: the sum is built as a total
MarksAdd(a, b) == NewMarks(Plus(a.value, b.value), TRUE)

\* Percentage.validatePercentage throws
PercentageThrows(percentage) ==
    \/ IsNaN(percentage)
    \/ Lt(percentage, N(MinPercentage))
    \/ Gt(percentage, N(MaxPercentage))

NewPercentage(percentage) ==
    IF PercentageThrows(percentage) THEN NoObj
    ELSE [kind |-> "Percentage", value |-> percentage]

PercentageFromMarksUnguarded(obtained, total) ==
    NewPercentage(Times(Div(obtained, total), N(100)))

\* Percentage.fromMarks
PercentageFromMarks(obtained, total) ==
    IF Le(total, N(0)) THEN NoObj
    ELSE NewPercentage(Times(Div(obtained, total), N(100)))

\* Percentage.fromFraction
PercentageFromFraction(numerator, denominator) ==
    IF Le(denominator, N(0)) THEN NoObj
    ELSE NewPercentage(Times(Div(numerator, denominator), N(100)))

\* the numbers and strings the value-object calls are made with
NumPool ==
    {N(-1), N(0), N(40), N(100), N(101), N(300), Rat(171, 2), Rat(2001, 20),
     Rat(-1, 2), NaN, PosInf, NegInf}

MarkStrings ==
    { <<>>, <<" ">>, <<"a", "b">>, <<"A", "B">>, <<" ", "A", "b", "s", "e", "n", "t">>,
      <<"8", "5", ".", "5">>, <<" ", "4", "0", " ">>, <<"1", "0", "1">>, <<"-", "1">>,
      <<"4", "0", "a", "b">>, <<"a", "b", "s">>, <<"x">>, <<".", "5">>, <<"1", "0", "0", ".">>,
      <<"I", "n", "f", "i", "n", "i", "t", "y">>, <<"-", "I", "n", "f", "i", "n", "i", "t", "y">> }

Call(op, x, y, s, t) == [op |-> op, x |-> x, y |-> y, s |-> s, isTotal |-> t]
NoCall == Call("none", NaN, NaN, <<>>, FALSE)

CallNewMarks ==
    /\ \E v \in NumPool, t \in BOOLEAN :
          /\ voCall' = Call("new Marks", v, NaN, <<>>, t)
          /\ voObj' = NewMarks(v, t)
    /\ UNCHANGED <<resVars, valVars, exVars, toolVars>>

CallMarksFromString ==
    /\ \E s \in MarkStrings :
          /\ voCall' = Call("Marks.fromString", NaN, NaN, s, FALSE)
          /\ voObj' = MarksFromString(s)
    /\ UNCHANGED <<resVars, valVars, exVars, toolVars>>

CallMarksZero ==
    /\ voCall' = Call("Marks.zero", NaN, NaN, <<>>, FALSE)
    /\ voObj' = MarksZero
    /\ UNCHANGED <<resVars, valVars, exVars, toolVars>>

CallMarksTotal ==
    /\ \E v \in NumPool :
          /\ voCall' = Call("Marks.total", v, NaN, <<>>, TRUE)
          /\ voObj' = MarksTotal(v)
    /\ UNCHANGED <<resVars, valVars, exVars, toolVars>>

\* the largest sum the model lets Marks.add build
MaxSum == 300

\* add on the Marks object at hand, with another valid Marks
CallMarksAdd ==
    /\ voObj.kind = "Marks"
    /\ \E v \in NumPool :
          /\ NewMarks(v, FALSE) /= NoObj
          /\ Le(Plus(voObj.value, v), N(MaxSum))
          /\ voCall' = Call("add", voObj.value, v, <<>>, TRUE)
          /\ voObj' = MarksAdd(voObj, NewMarks(v, FALSE))
    /\ UNCHANGED <<resVars, valVars, exVars, toolVars>>

CallNewPercentage ==
    /\ \E v \in NumPool :
          /\ voCall' = Call("new Percentage", v, NaN, <<>>, FALSE)
          /\ voObj' = NewPercentage(v)
    /\ UNCHANGED <<resVars, valVars, exVars, toolVars>>

CallPercentageFromMarks ==
    /\ \E o \in NumPool, t \in NumPool :
          /\ voCall' = Call("Percentage.fromMarks", o, t, <<>>, FALSE)
          /\ voObj' = PercentageFromMarks(o, t)
    /\ UNCHANGED <<resVars, valVars, exVars, toolVars>>

CallPercentageFromFraction ==
    /\ \E o \in NumPool, t \in NumPool :
          /\ voCall' = Call("Percentage.fromFraction", o, t, <<>>, FALSE)
          /\ voObj' = PercentageFromFraction(o, t)
    /\ UNCHANGED <<resVars, valVars, exVars, toolVars>>

CallPercentageZero ==
    /\ voCall' = Call("Percentage.zero", NaN, NaN, <<>>, FALSE)
    /\ voObj' = NewPercentage(N(0))
    /\ UNCHANGED <<resVars, valVars, exVars, toolVars>>

CallPercentageHundred ==
    /\ voCall' = Call("Percentage.hundred", NaN, NaN, <<>>, FALSE)
    /\ voObj' = NewPercentage(N(100))
    /\ UNCHANGED <<resVars, valVars, exVars, toolVars>>

\* the variables of the parts a specification leaves out keep these values
IdleVO == voCall = NoCall /\ voObj = NoObj
IdleRes == subjects = <<>> /\ studentResults = <<>> /\ resState = "none" /\ lastOp = NoOp
IdleVal ==
    /\ batch = <<>>
    /\ mappings = <<>>
    /\ customRules = <<>>
    /\ vres = NoResult
    /\ built = "none"
IdleEx == pc = "idle" /\ request = NoResult /\ response = NoResult
IdleMap == headers = <<>> /\ sampleRows = <<>> /\ mapRuns = <<>>
IdleParse == workbook = <<>> /\ options = NoResult /\ parseResult = NoResult /\ structure = NoResult
IdleCalc == calcData = NoResult /\ calcResult = NoResult /\ calcOut = NoResult
IdleApply == applyRows = <<>> /\ applyMaps = <<>> /\ applied = NoResult
IdlePorts == currentUser = NoUser /\ files = <<>> /\ quotas = <<>> /\ uploads = <<>> /\ reports = <<>> /\ deleteCall = NoResult
IdleTools == IdleMap /\ IdleParse /\ IdleCalc /\ IdleApply /\ IdlePorts

InitVO == IdleVO /\ IdleRes /\ IdleVal /\ IdleEx /\ IdleTools

NextVO ==
    \/ CallNewMarks
    \/ CallMarksFromString
    \/ CallMarksZero
    \/ CallMarksTotal
    \/ CallMarksAdd
    \/ CallNewPercentage
    \/ CallPercentageFromMarks
    \/ CallPercentageFromFraction
    \/ CallPercentageZero
    \/ CallPercentageHundred

\* the value objects, called with any argument of the pools
SpecVO == InitVO /\ [][NextVO]_vars

\* x is a finite number with lo <= x <= hi, by integer arithmetic on the fraction
InRange(x, lo, hi) == x[2] > 0 /\ lo * x[2] <= x[1] /\ x[1] <= hi * x[2]

NonTotalCall ==
    \/ voCall.op = "new Marks" /\ ~voCall.isTotal
    \/ voCall.op = "Marks.fromString"
    \/ voCall.op = "Marks.zero"

\* C8: every Marks built as a non-total (new Marks(v), Marks.fromString, Marks.zero)
\* holds a value in 0..100, and new Marks(v) with v < 0, v > 100 or v not finite
\* (NaN, +Infinity, -Infinity) throws and yields no object.
C8_NonTotalMarksInRange ==
    /\ (NonTotalCall /\ voObj /= NoObj) =>
          (voObj.kind = "Marks" /\ InRange(voObj.value, 0, 100))
    /\ (voCall.op = "new Marks" /\ ~voCall.isTotal /\ ~InRange(voCall.x, 0, 100)) =>
          voObj = NoObj

\* new Marks(+Infinity) was called and threw
C8_Witness ==
    /\ voCall.op = "new Marks"
    /\ ~voCall.isTotal
    /\ voCall.x = PosInf
    /\ voObj = NoObj

\* C9: every Percentage object holds a value in 0..100; Percentage.fromMarks(obtained,
\* total) throws when total <= 0 and when obtained / total * 100 exceeds 100.
C9_PercentageInRange ==
    /\ voObj.kind = "Percentage" => InRange(voObj.value, 0, 100)
    /\ (voCall.op = "Percentage.fromMarks" /\ (voCall.y = NegInf \/ InRange(voCall.y, -1000, 0)))
          => voObj = NoObj
    /\ (/\ voCall.op = "Percentage.fromMarks"
        /\ IsFinite(voCall.x) /\ IsFinite(voCall.y) /\ voCall.y[1] > 0
        /\ voCall.x[1] * voCall.y[2] > voCall.y[1] * voCall.x[2])
          => voObj = NoObj

\* Percentage.fromMarks(101, 100) was called and threw
C9_Witness ==
    /\ voCall.op = "Percentage.fromMarks"
    /\ voCall.x = N(101)
    /\ voCall.y = N(100)
    /\ voObj = NoObj

(***************************************************************************)
(* The Result aggregate                                                    *)
(***************************************************************************)
\* A StudentResult is [roll, marks, total, pct, rank]: marks is the Map from subject
\* name to marks, as its entries <<name, value>> in insertion order; rank 0 stands for
\* undefined.
NoRank == 0

\* Range of a sequence
Range(f) == {f[i] : i \in DOMAIN f}

\* Result.validateResult throws
ResultThrows(id, title, subjs) ==
    \/ Trim(id) = <<>>
    \/ Trim(title) = <<>>
    \/ subjs = <<>>

\* Array.from(map.keys())
MapKeys(m) == {m[i][1] : i \in DOMAIN m}

StudentResultThrowsNever(subjs, sr) == FALSE

\* Result.validateStudentResult throws: some subject has no entry in sr.marks
StudentResultThrows(subjs, sr) ==
    \E i \in DOMAIN subjs : subjs[i] \notin MapKeys(sr.marks)

\* Map.set(roll, sr): the entry of an existing key is replaced where it is, a new
\* key is appended
MapSet(entries, sr) ==
    IF \E i \in DOMAIN entries : entries[i].roll = sr.roll
    THEN [i \in DOMAIN entries |-> IF entries[i].roll = sr.roll THEN sr ELSE entries[i]]
    ELSE Append(entries, sr)

\* a comparator that puts the lower percentage first
RankBeforeAscending(a, b) == Lt(a.pct, b.pct)

\* the comparator of calculateRanks puts a before b
RankBefore(a, b) ==
    \/ Gt(a.pct, b.pct)
    \/ (a.pct = b.pct /\ Gt(a.total, b.total))

\* Array.prototype.sort is stable: x goes after every element it does not precede
RECURSIVE InsertSorted(_, _)
InsertSorted(sorted, x) ==
    IF sorted = <<>> THEN <<x>>
    ELSE IF RankBefore(x, Head(sorted)) THEN <<x>> \o sorted
    ELSE <<Head(sorted)>> \o InsertSorted(Tail(sorted), x)

RECURSIVE SortForRanks(_)
SortForRanks(results) ==
    IF results = <<>> THEN <<>>
    ELSE InsertSorted(SortForRanks(SubSeq(results, 1, Len(results) - 1)), results[Len(results)])

NextRankDense(results, i, currentRank) ==
    IF i > 1 /\ results[i].pct /= results[i - 1].pct THEN currentRank + 1 ELSE currentRank

\* currentRank after the test of loop index i (1-based here)
NextRank(results, i, currentRank) ==
    IF i > 1 /\ results[i].pct /= results[i - 1].pct THEN i ELSE currentRank

StoredRankAccumulated(old, currentRank) == old + currentRank

\* results[i].rank = currentRank
StoredRank(old, currentRank) == currentRank

\* the loop of calculateRanks over the sorted array, from index i on
RECURSIVE AssignRanks(_, _, _)
AssignRanks(results, i, currentRank) ==
    IF i > Len(results) THEN results
    ELSE LET r == NextRank(results, i, currentRank)
         IN  AssignRanks([results EXCEPT ![i].rank = StoredRank(results[i].rank, r)], i + 1, r)

\* Result.calculateRanks: the ranks are written to the stored objects, the Map keeps
\* its order
CalculateRanksOn(entries) ==
    LET ranked == AssignRanks(SortForRanks(entries), 1, 1)
    IN  [i \in DOMAIN entries |->
            ranked[CHOOSE j \in DOMAIN ranked : ranked[j].roll = entries[i].roll]]

\* the constructor's forEach: the result of adding each in turn, or "throw"
RECURSIVE AddAll(_, _, _)
AddAll(subjs, entries, toAdd) ==
    IF toAdd = <<>> THEN [threw |-> FALSE, entries |-> entries]
    ELSE IF StudentResultThrows(subjs, Head(toAdd)) THEN [threw |-> TRUE, entries |-> <<>>]
    ELSE AddAll(subjs, MapSet(entries, Head(toAdd)), Tail(toAdd))

MaxStudents == 4
Rolls == 1..MaxStudents
SubjectLists == { <<>>, <<"math", "sci">> }
Ids == { <<>>, <<"r">> }
Titles == { <<" ">>, <<"T">> }

MarksMaps ==
    { << <<"math", N(90)>> >>,
      << <<"sci", N(75)>>, <<"math", N(75)>> >> }

\* the percentages of the StudentResults handed to the aggregate
Percentages == { N(90), N(75), Rat(200, 3) }

\* their total marks: callers build total and percentage apart, so two students of
\* one percentage may differ in total (here: by the parity of the roll)
TotalOf(r, p) == Plus(Times(p, N(2)), N(r % 2))

StudentResultPool ==
    { [roll |-> r, marks |-> m, total |-> TotalOf(r, p), pct |-> p, rank |-> NoRank] :
        r \in Rolls, m \in MarksMaps, p \in Percentages }

InitialLists ==
    { <<>> } \cup { <<a>> : a \in {sr \in StudentResultPool : sr.roll = 1} }
    \cup { <<a, b>> : a \in {sr \in StudentResultPool : sr.roll = 1 /\ sr.pct = N(75)},
                      b \in {sr \in StudentResultPool : sr.roll \in {1, 2} /\ sr.pct /= N(90)} }

\* sr has no marks entry for some subject of subjs
Lacks(subjs, sr) ==
    \E s \in Range(subjs) : \A j \in DOMAIN sr.marks : sr.marks[j][1] /= s

\* new Result(id, title, subjects, studentResults)
Construct ==
    /\ resState = "none"
    /\ \E id \in Ids, title \in Titles, subjs \in SubjectLists, initial \in InitialLists :
          IF ResultThrows(id, title, subjs) \/ AddAll(subjs, <<>>, initial).threw
          THEN /\ resState' = "failed"
               /\ lastOp' = Op("constructor", TRUE, 0,
                               ~ResultThrows(id, title, subjs)
                                 /\ \E i \in DOMAIN initial : Lacks(subjs, initial[i]))
               /\ UNCHANGED <<subjects, studentResults>>
          ELSE /\ resState' = "ok"
               /\ subjects' = subjs
               /\ studentResults' = AddAll(subjs, <<>>, initial).entries
               /\ lastOp' = Op("constructor", FALSE, 0,
                               \E i \in DOMAIN initial : Lacks(subjs, initial[i]))
    /\ UNCHANGED <<voVars, valVars, exVars, toolVars>>

\* the entries, had Map.set run before validateStudentResult
EntriesStoredFirst(subjs, entries, sr) == MapSet(entries, sr)

\* the entries addStudentResult(sr) leaves: validateStudentResult throws before
\* Map.set is reached
EntriesAfterAdd(subjs, entries, sr) ==
    IF StudentResultThrows(subjs, sr) THEN entries ELSE MapSet(entries, sr)

\* result.addStudentResult(sr).  Roll numbers are opaque keys: a key not yet stored
\* is the next unused roll.
AddStudentResult ==
    /\ resState = "ok"
    /\ \E sr \in StudentResultPool :
          /\ sr.roll <= Len(studentResults) + 1
          /\ studentResults' = EntriesAfterAdd(subjects, studentResults, sr)
          /\ lastOp' = Op("addStudentResult", StudentResultThrows(subjects, sr), 0,
                          Lacks(subjects, sr))
    /\ UNCHANGED <<subjects, resState, voVars, valVars, exVars, toolVars>>

MaxRankCalls == 2

\* result.calculateRanks(); lastOp.n counts the calls made in a row
CalculateRanks ==
    /\ resState = "ok"
    /\ LET n == IF lastOp.op = "calculateRanks" THEN lastOp.n ELSE 0
       IN  /\ n < MaxRankCalls
           /\ lastOp' = Op("calculateRanks", FALSE, n + 1, FALSE)
    /\ studentResults' = CalculateRanksOn(studentResults)
    /\ UNCHANGED <<subjects, resState, voVars, valVars, exVars, toolVars>>

InitRes ==
    /\ IdleVO /\ IdleRes /\ IdleVal /\ IdleEx /\ IdleTools

NextRes ==
    \/ Construct
    \/ AddStudentResult
    \/ CalculateRanks

\* one Result: its construction, then any sequence of addStudentResult and calculateRanks
SpecRes == InitRes /\ [][NextRes]_vars

\* entry j comes before entry i in the order by percentage descending, ties by total
\* marks descending, entries equal in both in stored order
Precedes(j, i) ==
    LET a == studentResults[j]
        b == studentResults[i]
    IN  \/ Gt(a.pct, b.pct)
        \/ (a.pct = b.pct /\ Gt(a.total, b.total))
        \/ (a.pct = b.pct /\ a.total = b.total /\ j < i)

\* the 1-based position of entry i in that order, and the entry at position k
PositionOf(i) == 1 + Cardinality({j \in DOMAIN studentResults : Precedes(j, i)})
EntryAt(k) == studentResults[CHOOSE i \in DOMAIN studentResults : PositionOf(i) = k]

\* C1: after calculateRanks, in the order by percentage descending (ties by total marks
\* descending) the first student has rank 1 and every later student has its
\* predecessor's rank if its percentage equals the predecessor's, otherwise its
\* 1-based position: ties share a rank and the next rank skips by the tie-group size.
C1_CompetitionRanks ==
    (resState = "ok" /\ lastOp.op = "calculateRanks") =>
        \A k \in DOMAIN studentResults :
            /\ \E i \in DOMAIN studentResults : PositionOf(i) = k
            /\ EntryAt(k).rank =
                  IF k = 1 THEN 1
                  ELSE IF EntryAt(k).pct = EntryAt(k - 1).pct THEN EntryAt(k - 1).rank
                  ELSE k

\* four students ranked 1, 2, 2, 4
C1_Witness ==
    /\ resState = "ok"
    /\ lastOp.op = "calculateRanks"
    /\ Len(studentResults) = 4
    /\ \E a, b, c, d \in DOMAIN studentResults :
          /\ b /= c
          /\ studentResults[a].rank = 1
          /\ studentResults[b].rank = 2
          /\ studentResults[c].rank = 2
          /\ studentResults[d].rank = 4
          /\ studentResults[b].total /= studentResults[c].total

\* C2: every StudentResult stored in the ResultSet has a marks entry for every Subject
\* of the ResultSet; adding one that lacks the marks of some subject fails, and fails
\* the construction when it is passed to the constructor.
C2_StoredResultsCoverSubjects ==
    /\ \A i \in DOMAIN studentResults : \A s \in Range(subjects) :
          \E j \in DOMAIN studentResults[i].marks : studentResults[i].marks[j][1] = s
    /\ lastOp.lacking => lastOp.threw
    /\ (lastOp.op = "constructor" /\ lastOp.lacking) => resState = "failed"

\* a StudentResult without the marks of "sci" was refused by a ResultSet that stores others
C2_Witness ==
    /\ resState = "ok"
    /\ lastOp.op = "addStudentResult"
    /\ lastOp.lacking
    /\ lastOp.threw
    /\ Len(studentResults) >= 2

\* C10: a second calculateRanks, with no addStudentResult in between, leaves every
\* student's rank (and the rest of the ResultSet) as the first call left it.
C10_CalculateRanksIdempotent ==
    [][(lastOp'.op = "calculateRanks" /\ lastOp'.n >= 2) => studentResults' = studentResults]_vars

\* calculateRanks ran twice in a row on three students, two of them tied
C10_Witness ==
    /\ lastOp.op = "calculateRanks"
    /\ lastOp.n = 2
    /\ Len(studentResults) >= 3
    /\ \E i, j \in DOMAIN studentResults :
          i /= j /\ studentResults[i].rank = studentResults[j].rank

\* C26: an addStudentResult that fails (the StudentResult lacks the marks of some
\* subject) leaves the ResultSet as it was: the stored roll numbers, the stored
\* results and their count, the assigned ranks and the subjects.
C26_FailedAddChangesNothing ==
    [][(lastOp'.op = "addStudentResult" /\ lastOp'.threw)
          => (studentResults' = studentResults /\ subjects' = subjects
              /\ resState' = resState)]_vars

\* a ResultSet of ranked students refused a StudentResult whose roll number it stores
C26_Witness ==
    /\ resState = "ok"
    /\ lastOp.op = "addStudentResult"
    /\ lastOp.threw
    /\ Len(studentResults) >= 2
    /\ \A i \in DOMAIN studentResults : studentResults[i].rank /= NoRank

\* the sort of getStudentsByRank, which is stable: x goes after every element whose
\* rank is not greater
RECURSIVE InsertByRank(_, _)
InsertByRank(sorted, x) ==
    IF sorted = <<>> THEN <<x>>
    ELSE IF x.rank < Head(sorted).rank THEN <<x>> \o sorted
    ELSE <<Head(sorted)>> \o InsertByRank(Tail(sorted), x)

RECURSIVE SortByRank(_)
SortByRank(results) ==
    IF results = <<>> THEN <<>>
    ELSE InsertByRank(SortByRank(SubSeq(results, 1, Len(results) - 1)), results[Len(results)])

HasRank(sr) == sr.rank /= NoRank

\* result.getStudentsByRank(): the students that carry a rank, by rank
GetStudentsByRank(entries) == SortByRank(SelectSeq(entries, HasRank))

\* result.getTopStudents(count)
GetTopStudents(entries, count) ==
    SubSeq(GetStudentsByRank(entries), 1,
           IF count < Len(GetStudentsByRank(entries)) THEN count
           ELSE Len(GetStudentsByRank(entries)))

\* the number of stored students with a strictly greater percentage than sr
GreaterCount(sr) ==
    Cardinality({j \in DOMAIN studentResults : Gt(studentResults[j].pct, sr.pct)})

\* C19: after any sequence of addStudentResult and calculateRanks, every student that
\* getStudentsByRank and getTopStudents expose has rank = 1 + the number of currently
\* stored students with a strictly greater percentage.
C19_ExposedRanksCurrent ==
    resState = "ok" =>
        /\ \A k \in DOMAIN GetStudentsByRank(studentResults) :
              GetStudentsByRank(studentResults)[k].rank
                  = 1 + GreaterCount(GetStudentsByRank(studentResults)[k])
        /\ \A k \in DOMAIN GetTopStudents(studentResults, 1) :
              GetTopStudents(studentResults, 1)[k].rank
                  = 1 + GreaterCount(GetTopStudents(studentResults, 1)[k])

\* C20: immediately after calculateRanks each student's rank is 1 plus the number of
\* students of the ResultSet with a strictly greater percentage; so every rank lies in
\* 1..N, equal percentages share a rank and a strictly higher percentage has a
\* strictly smaller rank.
C20_RankIsOnePlusGreater ==
    (resState = "ok" /\ lastOp.op = "calculateRanks") =>
        \A i \in DOMAIN studentResults :
            /\ studentResults[i].rank = 1 + GreaterCount(studentResults[i])
            /\ studentResults[i].rank \in 1..Len(studentResults)
            /\ \A j \in DOMAIN studentResults :
                  /\ studentResults[i].pct = studentResults[j].pct
                        => studentResults[i].rank = studentResults[j].rank
                  /\ Gt(studentResults[i].pct, studentResults[j].pct)
                        => studentResults[i].rank < studentResults[j].rank

\* calculateRanks ranked three students: two of one percentage and different totals
\* share rank 2 behind a student of a higher percentage
C20_Witness ==
    /\ resState = "ok"
    /\ lastOp.op = "calculateRanks"
    /\ Len(studentResults) = 3
    /\ \E i, j, k \in DOMAIN studentResults :
          /\ i /= j
          /\ studentResults[i].pct = studentResults[j].pct
          /\ studentResults[i].total /= studentResults[j].total
          /\ studentResults[i].rank = 2
          /\ studentResults[j].rank = 2
          /\ Gt(studentResults[k].pct, studentResults[i].pct)
          /\ studentResults[k].rank = 1

(***************************************************************************)
(* ValidationService                                                       *)
(***************************************************************************)
\* A cell value is undefined, a number or a string.
Undef == [t |-> "undef", n |-> NaN, s |-> <<>>]
NumV(x) == [t |-> "num", n |-> x, s |-> <<>>]
StrV(str) == [t |-> "str", n |-> NaN, s |-> str]

\* the decimal digits of a natural number
RECURSIVE NatToString(_)
NatToString(k) ==
    IF k < 10 THEN <<DigitSeq[k + 1]>>
    ELSE NatToString(k \div 10) \o <<DigitSeq[(k % 10) + 1]>>

NaNWord == <<"N", "a", "N">>
UndefinedWord == <<"u", "n", "d", "e", "f", "i", "n", "e", "d">>

\* String(value); of the numbers, the integers are written out (no cell of the model
\* that is turned into a string holds a fraction)
ToStr(v) ==
    IF v.t = "str" THEN v.s
    ELSE IF v.t = "undef" THEN UndefinedWord
    ELSE IF IsNaN(v.n) THEN NaNWord
    ELSE IF ~IsFinite(v.n) THEN (IF v.n = PosInf THEN InfinityWord ELSE <<"-">> \o InfinityWord)
    ELSE IF v.n[1] < 0 THEN <<"-">> \o NatToString((-v.n[1]) \div v.n[2])
    ELSE NatToString(v.n[1] \div v.n[2])

\* the value counts as true in a condition
Truthy(v) ==
    IF v.t = "str" THEN v.s /= <<>>
    ELSE IF v.t = "num" THEN ~IsNaN(v.n) /\ v.n /= N(0)
    ELSE FALSE

\* Number(value)
ToNumber(v) ==
    IF v.t = "num" THEN v.n
    ELSE IF v.t = "str" THEN StringToNumber(v.s)
    ELSE NaN

IsLetter(c) == (\E i \in DOMAIN UpperSeq : UpperSeq[i] = c) \/ (\E i \in DOMAIN LowerSeq : LowerSeq[i] = c)
\* one character of the class [a-zA-Z\s\.''-]
IsNameChar(c) == IsLetter(c) \/ c \in {" ", ".", "'", "-"}

\* marks[subject] of a marks object (entries <<subject, cell>>), undefined when absent
MarksGet(marks, subject) ==
    IF \E j \in DOMAIN marks : marks[j][1] = subject
    THEN marks[CHOOSE j \in DOMAIN marks : marks[j][1] = subject][2]
    ELSE Undef

\* what a validator returns: isValid, and the message ("" when there is none)
Verdict(isValid, message) == [isValid |-> isValid, message |-> message, threw |-> FALSE]
Thrown == [isValid |-> FALSE, message |-> "thrown", threw |-> TRUE]

ValidateRequired(value, message) ==
    Verdict(Truthy(value) /\ Len(Trim(ToStr(value))) > 0, message)

MinNameLength == 2
MaxNameLength == 100
MinRollLength == 1
MaxRollLength == 20

ValidateNameFormat(value) ==
    LET name == Trim(ToStr(value))
    IN  IF ~Truthy(value) THEN Verdict(TRUE, "")
        ELSE IF name = <<>> \/ \E i \in DOMAIN name : ~IsNameChar(name[i])
             THEN Verdict(FALSE, "Name contains invalid characters")
        ELSE IF ~(Len(name) >= MinNameLength)
             THEN Verdict(FALSE, "Name must be at least 2 characters long")
        ELSE IF ~(Len(name) <= MaxNameLength)
             THEN Verdict(FALSE, "Name cannot exceed 100 characters")
        ELSE Verdict(TRUE, "")

ValidateRollNumberFormat(value) ==
    LET rollNo == Trim(ToStr(value))
    IN  IF ~Truthy(value) THEN Verdict(TRUE, "")
        ELSE IF ~(Len(rollNo) >= MinRollLength /\ Len(rollNo) <= MaxRollLength)
             THEN Verdict(FALSE, "Roll number must be between 1-20 characters")
        ELSE Verdict(TRUE, "")

NumberOutOfRange(numMarks) ==
    IsNaN(numMarks) \/ Lt(numMarks, N(MinMarks)) \/ Gt(numMarks, N(MaxMarks))

MarkOutOfRange(cell) == NumberOutOfRange(ToNumber(cell))

\* marks_range; row.marks is always an object here (transformRowsForValidation makes it)
ValidateMarksRange(row) ==
    IF \E j \in DOMAIN row.marks : MarkOutOfRange(row.marks[j][2])
    THEN Verdict(FALSE, "Invalid marks (must be 0-100)")
    ELSE Verdict(TRUE, "")

RECURSIVE SumSeq(_)
SumSeq(xs) == IF xs = <<>> THEN N(0) ELSE Plus(Head(xs), SumSeq(Tail(xs)))

IsPositiveNumber(x) == ~IsNaN(x) /\ Gt(x, N(0))

\* Number(m) of the cells m that pass the filter !isNaN(Number(m)) && Number(m) > 0
FilterPositive(cells) ==
    SelectSeq([j \in DOMAIN cells |-> ToNumber(cells[j])], IsPositiveNumber)

LowAverage == 10
HighAverage == 95

\* marks_consistency from the average on: the two "please verify" results are
\* returned with isValid true
AverageVerdict(average) ==
    IF Lt(average, N(LowAverage))
    THEN Verdict(TRUE, "Very low average marks - please verify data")
    ELSE IF Gt(average, N(HighAverage))
    THEN Verdict(TRUE, "Very high average marks - please verify data")
    ELSE Verdict(TRUE, "")

MarksConsistencyOf(validMarks) ==
    IF validMarks = <<>> THEN Verdict(FALSE, "Student has no valid marks in any subject")
    ELSE AverageVerdict(Div(SumSeq(validMarks), N(Len(validMarks))))

\* marks_consistency
ValidateMarksConsistency(row) ==
    MarksConsistencyOf(FilterPositive([j \in DOMAIN row.marks |-> row.marks[j][2]]))

ShortWord == 3
LongCapsName == 10

\* name_consistency: every result is returned with isValid true
ValidateNameConsistency(value) ==
    LET name == Trim(ToStr(value))
        oneWord == \A i \in DOMAIN name : name[i] /= " "
    IN  IF ~Truthy(value) THEN Verdict(TRUE, "")
        ELSE IF oneWord /\ Len(name) < ShortWord
             THEN Verdict(TRUE, "Very short name - please verify")
        ELSE IF \E i \in DOMAIN name : IsDigit(name[i])
             THEN Verdict(TRUE, "Name contains numbers - please verify")
        ELSE IF name = ToUpperCase(name) /\ Len(name) > LongCapsName
             THEN Verdict(TRUE, "Name is in all caps - consider proper case")
        ELSE IF name = ToLowerCase(name)
             THEN Verdict(TRUE, "Name is in all lowercase - consider proper case")
        ELSE Verdict(TRUE, "")

Rule(name, field, severity) == [name |-> name, field |-> field, severity |-> severity]

DEFAULT_RULES ==
    << Rule("required_student_name", "studentName", "error"),
       Rule("required_roll_number", "rollNumber", "error"),
       Rule("name_format", "studentName", "error"),
       Rule("roll_number_format", "rollNumber", "error"),
       Rule("marks_range", "marks", "error"),
       Rule("marks_consistency", "marks", "warning"),
       Rule("name_consistency", "studentName", "warning") >>

\* rule.validator(row[rule.field], row, allRows).  The custom rules of the model are
\* named after what their validator does.
RunValidator(rule, row) ==
    CASE rule.name = "required_student_name" ->
            ValidateRequired(row.studentName, "Student name is required")
      [] rule.name = "required_roll_number" ->
            ValidateRequired(row.rollNumber, "Roll number is required")
      [] rule.name = "name_format" -> ValidateNameFormat(row.studentName)
      [] rule.name = "roll_number_format" -> ValidateRollNumberFormat(row.rollNumber)
      [] rule.name = "marks_range" -> ValidateMarksRange(row)
      [] rule.name = "marks_consistency" -> ValidateMarksConsistency(row)
      [] rule.name = "name_consistency" -> ValidateNameConsistency(row.studentName)
      [] rule.name = "custom_throws" -> Thrown
      [] rule.name = "custom_rejects" -> Verdict(FALSE, "rejected by a custom rule")
      [] rule.name = "custom_silent" -> Verdict(FALSE, "")
      [] OTHER -> Verdict(TRUE, "")

Issue(rule, message) == [field |-> rule.field, rule |-> rule.name, message |-> message]

\* the rule's outcome is pushed to errors: the validator threw (the catch block does
\* not look at the severity), or an error rule answered invalid with a message
PushesError(rule, result) ==
    \/ result.threw
    \/ (~result.isValid /\ result.message /= "" /\ rule.severity = "error")

\* the rule's outcome is pushed to warnings
PushesWarning(rule, result) ==
    /\ ~result.threw
    /\ ~result.isValid /\ result.message /= ""
    /\ rule.severity /= "error"

\* what the rules' validators return on the row, in rule order
RunValidators(rules, row) == [k \in DOMAIN rules |-> RunValidator(rules[k], row)]

\* the errors pushed for the rules from the k-th on, given the validators' results
RECURSIVE CollectErrors(_, _, _)
CollectErrors(rules, results, k) ==
    IF k > Len(rules) THEN <<>>
    ELSE (IF PushesError(rules[k], results[k])
          THEN <<Issue(rules[k],
                       IF results[k].threw THEN "Validation error" ELSE results[k].message)>>
          ELSE <<>>) \o CollectErrors(rules, results, k + 1)

RECURSIVE CollectWarnings(_, _, _)
CollectWarnings(rules, results, k) ==
    IF k > Len(rules) THEN <<>>
    ELSE (IF PushesWarning(rules[k], results[k])
          THEN <<Issue(rules[k], results[k].message)>>
          ELSE <<>>) \o CollectWarnings(rules, results, k + 1)

\* what validateRow returns
RowValidationResult(rowIndex, errors, warnings) ==
    [ rowIndex |-> rowIndex,
      isValid |-> errors = <<>>,
      errors |-> errors,
      warnings |-> warnings ]

\* validateRow, from the validators' results on
RowResultOf(rowIndex, rules, results) ==
    RowValidationResult(rowIndex, CollectErrors(rules, results, 1),
                        CollectWarnings(rules, results, 1))

\* ValidationService.validateRow
ValidateRow(row, rowIndex, rules) == RowResultOf(rowIndex, rules, RunValidators(rules, row))

\* A parsed row holds a cell under each of the headers Name, Roll, Math, Sci.
\* A mapping is [excelColumn, dataField]; the dataField of a subject column is
\* "subject_" followed by the subject's name, kept here as [subject |-> name].
Mapping(column, field, subject) == [excelColumn |-> column, dataField |-> field, subject |-> subject]

\* the subject names of the subject_ mappings, in mapping order
RECURSIVE SubjectsOf(_)
SubjectsOf(ms) ==
    IF ms = <<>> THEN <<>>
    ELSE (IF Head(ms).dataField = "subject" THEN <<Head(ms).subject>> ELSE <<>>)
         \o SubjectsOf(Tail(ms))

\* the value the mappings leave under a non-subject field (the last mapping wins)
RECURSIVE FieldOf(_, _, _)
FieldOf(row, ms, field) ==
    IF ms = <<>> THEN Undef
    ELSE IF ms[Len(ms)].dataField = field THEN row[ms[Len(ms)].excelColumn]
    ELSE FieldOf(row, SubSeq(ms, 1, Len(ms) - 1), field)

RECURSIVE MarksOf(_, _)
MarksOf(row, ms) ==
    IF ms = <<>> THEN <<>>
    ELSE (IF Head(ms).dataField = "subject"
          THEN << <<Head(ms).subject, row[Head(ms).excelColumn]>> >>
          ELSE <<>>) \o MarksOf(row, Tail(ms))

\* ValidationService.transformRowsForValidation
TransformRowsForValidation(rows, ms) ==
    [i \in DOMAIN rows |->
        [ studentName |-> FieldOf(rows[i], ms, "studentName"),
          rollNumber |-> FieldOf(rows[i], ms, "rollNumber"),
          marks |-> MarksOf(rows[i], ms) ]]

\* String(value).trim().toLowerCase()
NormalKey(value) == ToLowerCase(Trim(ToStr(value)))

\* the keys of the map in first-insertion order
RECURSIVE InsertionKeys(_, _)
InsertionKeys(values, seen) ==
    IF values = <<>> THEN <<>>
    ELSE IF ~Truthy(Head(values)) \/ NormalKey(Head(values)) \in seen
         THEN InsertionKeys(Tail(values), seen)
    ELSE <<NormalKey(Head(values))>>
         \o InsertionKeys(Tail(values), seen \cup {NormalKey(Head(values))})

\* the key is an integer index: Object.entries lists those first, in ascending order
IsIndexKey(k) ==
    /\ k /= <<>>
    /\ \A i \in DOMAIN k : IsDigit(k[i])
    /\ (Len(k) > 1 => k[1] /= "0")

RECURSIVE InsertByValue(_, _)
InsertByValue(sorted, k) ==
    IF sorted = <<>> THEN <<k>>
    ELSE IF DigitsValue(k, 1, Len(k) + 1) < DigitsValue(Head(sorted), 1, Len(Head(sorted)) + 1)
         THEN <<k>> \o sorted
    ELSE <<Head(sorted)>> \o InsertByValue(Tail(sorted), k)

RECURSIVE SortIndexKeys(_)
SortIndexKeys(ks) ==
    IF ks = <<>> THEN <<>> ELSE InsertByValue(SortIndexKeys(Tail(ks)), Head(ks))

IsNotIndexKey(k) == ~IsIndexKey(k)

\* the keys in property order: the integer indexes ascending, then the others in
\* insertion order
PropertyOrder(ks) == SortIndexKeys(SelectSeq(ks, IsIndexKey)) \o SelectSeq(ks, IsNotIndexKey)

\* Object.entries(map): the keys in property order
EntryKeys(values) == PropertyOrder(InsertionKeys(values, {}))

\* the 0-based indexes of the rows filed under key k
RECURSIVE IndexesOf(_, _, _)
IndexesOf(values, k, i) ==
    IF i > Len(values) THEN <<>>
    ELSE (IF Truthy(values[i]) /\ NormalKey(values[i]) = k THEN <<i - 1>> ELSE <<>>)
         \o IndexesOf(values, k, i + 1)

RECURSIVE DuplicatesAmong(_, _)
DuplicatesAmong(keys, values) ==
    IF keys = <<>> THEN <<>>
    ELSE (IF Len(IndexesOf(values, Head(keys), 1)) > 1
          THEN <<[key |-> Head(keys), rowIndexes |-> IndexesOf(values, Head(keys), 1)]>>
          ELSE <<>>) \o DuplicatesAmong(Tail(keys), values)

DuplicatesNone(values) == <<>>

\* the entries of one of the two maps of analyzeDuplicates that hold several rows
DuplicatesOf(values) == DuplicatesAmong(EntryKeys(values), values)

\* ValidationService.analyzeDuplicates
AnalyzeDuplicates(rows) ==
    [ duplicateRollNumbers |-> DuplicatesOf([i \in DOMAIN rows |-> rows[i].rollNumber]),
      duplicateNames |-> DuplicatesOf([i \in DOMAIN rows |-> rows[i].studentName]) ]

\* Math.round
Round(x) == IF IsFinite(x) THEN N((2 * x[1] + x[2]) \div (2 * x[2])) ELSE x

\* xs.filter(Test).length
CountWhere(xs, Test(_)) == Len(SelectSeq(xs, Test))

CompletedFields(row) ==
    (IF Truthy(row.studentName) THEN 1 ELSE 0)
    + (IF Truthy(row.rollNumber) THEN 1 ELSE 0)
    + (IF row.marks /= <<>> THEN 1 ELSE 0)

RECURSIVE SumCompleted(_)
SumCompleted(rows) ==
    IF rows = <<>> THEN 0 ELSE CompletedFields(Head(rows)) + SumCompleted(Tail(rows))

HasNoWarnings(r) == r.warnings = <<>>
HasNoErrors(r) == r.errors = <<>>
RowIsValid(r) == r.isValid
RowIsInvalid(r) == ~r.isValid
HasWarnings(r) == r.warnings /= <<>>

FieldsPerRow == 3
LowCompleteness == 80
LowConsistency == 80
LowAccuracy == 90
ExcellentScore == 90
GoodScore == 70

\* the insights pushed for the four scores
Insights(completenessScore, consistencyScore, accuracyScore, overallScore) ==
    (IF Lt(completenessScore, N(LowCompleteness))
     THEN <<"Data has missing values in required fields">> ELSE <<>>)
    \o (IF Lt(consistencyScore, N(LowConsistency))
        THEN <<"Data formatting is inconsistent across rows">> ELSE <<>>)
    \o (IF Lt(accuracyScore, N(LowAccuracy))
        THEN <<"Data contains validation errors that need attention">> ELSE <<>>)
    \o (IF Ge(overallScore, N(ExcellentScore)) THEN <<"Data quality is excellent">>
        ELSE IF Ge(overallScore, N(GoodScore))
             THEN <<"Data quality is good with minor issues">>
        ELSE <<"Data quality needs significant improvement">>)

\* what analyzeDataQuality returns
QualityReport(completenessScore, consistencyScore, accuracyScore, overallScore) ==
    [ completenessScore |-> completenessScore,
      consistencyScore |-> consistencyScore,
      accuracyScore |-> accuracyScore,
      overallScore |-> overallScore,
      insights |-> Insights(completenessScore, consistencyScore, accuracyScore, overallScore) ]

\* analyzeDataQuality from the three scores on
QualityOfScores(completenessScore, consistencyScore, accuracyScore) ==
    QualityReport(completenessScore, consistencyScore, accuracyScore,
        Round(Div(Plus(Plus(completenessScore, consistencyScore), accuracyScore), N(3))))

\* ValidationService.analyzeDataQuality
AnalyzeDataQuality(rows, validationResults) ==
    QualityOfScores(
        Round(Times(Div(N(SumCompleted(rows)), N(Len(rows) * FieldsPerRow)), N(100))),
        Round(Times(Div(N(CountWhere(validationResults, HasNoWarnings)), N(Len(rows))), N(100))),
        Round(Times(Div(N(CountWhere(validationResults, HasNoErrors)), N(Len(rows))), N(100))))

GlobalIssue(message, duplicates) ==
    [message |-> message, listed |-> [i \in DOMAIN duplicates |-> duplicates[i].key]]

GlobalErrorsOf(duplicateAnalysis) ==
    IF Len(duplicateAnalysis.duplicateRollNumbers) > 0
    THEN <<GlobalIssue("Found duplicate roll numbers", duplicateAnalysis.duplicateRollNumbers)>>
    ELSE <<>>

GlobalWarningsOf(duplicateAnalysis) ==
    IF Len(duplicateAnalysis.duplicateNames) > 0
    THEN <<GlobalIssue("Found duplicate names", duplicateAnalysis.duplicateNames)>>
    ELSE <<>>

BatchIsValidIgnoringGlobal(globalErrors, invalidRows) == invalidRows = 0

\* the isValid of the DataValidationResult
BatchIsValid(globalErrors, invalidRows) == Len(globalErrors) = 0 /\ invalidRows = 0

\* what validateData returns
DataValidationResult(transformedRows, rowResults, duplicateAnalysis) ==
    [ kind |-> "result",
      isValid |-> BatchIsValid(GlobalErrorsOf(duplicateAnalysis),
                               CountWhere(rowResults, RowIsInvalid)),
      summary |-> [ totalRows |-> Len(transformedRows),
                    validRows |-> CountWhere(rowResults, RowIsValid),
                    invalidRows |-> CountWhere(rowResults, RowIsInvalid),
                    warningRows |-> CountWhere(rowResults, HasWarnings) ],
      rowResults |-> rowResults,
      globalErrors |-> GlobalErrorsOf(duplicateAnalysis),
      globalWarnings |-> GlobalWarningsOf(duplicateAnalysis),
      duplicateAnalysis |-> duplicateAnalysis,
      dataQualityAnalysis |-> AnalyzeDataQuality(transformedRows, rowResults) ]

\* validateData from the transformed rows on
ValidateTransformed(transformedRows, allRules) ==
    DataValidationResult(
        transformedRows,
        [i \in DOMAIN transformedRows |-> ValidateRow(transformedRows[i], i - 1, allRules)],
        AnalyzeDuplicates(transformedRows))

\* ValidationService.validateData
ValidateData(rows, ms, custom) ==
    ValidateTransformed(TransformRowsForValidation(rows, ms), DEFAULT_RULES \o custom)

(***************************************************************************)
(* Result.fromRawData                                                      *)
(***************************************************************************)
DefaultMaxMarks == 100
SubjectMaxLimit == 1000

\* new Subject(name) throws (maxMarks is the default)
SubjectThrows(name) ==
    \/ Trim(name) = <<>>
    \/ DefaultMaxMarks <= 0
    \/ DefaultMaxMarks > SubjectMaxLimit

\* Student.fromRawData(data) throws: its own two tests, then Student.validateStudent
StudentThrows(name, rollNumber) ==
    \/ ~Truthy(name)
    \/ ~Truthy(rollNumber)
    \/ name.t /= "str"
    \/ Len(Trim(name.s)) = 0
    \/ Len(Trim(name.s)) < MinNameLength
    \/ rollNumber.t /= "str"
    \/ Len(Trim(rollNumber.s)) = 0

\* the Marks built from one raw mark: Marks.fromString of a string, else
\* new Marks(markValue || 0)
MarkFromRaw(markValue) ==
    IF markValue.t = "str" THEN MarksFromString(markValue.s)
    ELSE NewMarks(IF Truthy(markValue) THEN markValue.n ELSE N(0), FALSE)

\* the StudentResult literal
StudentResultOf(subjs, sd, values, total, percentage) ==
    IF percentage = NoObj THEN NoObj
    ELSE [ kind |-> "StudentResult",
           roll |-> Trim(sd.rollNumber.s),
           marks |-> [i \in DOMAIN subjs |-> <<Trim(subjs[i]), values[i]>>],
           total |-> total,
           pct |-> percentage.value,
           rank |-> NoRank ]

\* Marks.total(totalMarksValue) and Percentage.fromMarks(totalMarksValue, maxTotalMarks)
StudentResultOfTotal(subjs, sd, values, totalMarksValue) ==
    IF MarksTotal(totalMarksValue) = NoObj THEN NoObj
    ELSE StudentResultOf(subjs, sd, values, totalMarksValue,
            PercentageFromMarks(totalMarksValue, N(Len(subjs) * DefaultMaxMarks)))

\* the total of the Marks made of the student's raw marks
StudentResultOfMarks(subjs, sd, made) ==
    IF \E i \in DOMAIN subjs : made[i] = NoObj THEN NoObj
    ELSE StudentResultOfTotal(subjs, sd, [i \in DOMAIN subjs |-> made[i].value],
                              SumSeq([i \in DOMAIN subjs |-> made[i].value]))

\* the StudentResult fromRawData builds of one studentData element, NoObj when a
\* constructor on the way throws
StudentResultFromRaw(subjs, sd) ==
    IF StudentThrows(sd.name, sd.rollNumber) THEN NoObj
    ELSE StudentResultOfMarks(subjs, sd,
            [i \in DOMAIN subjs |-> MarkFromRaw(MarksGet(sd.marks, Trim(subjs[i])))])

Stored(sr) == [roll |-> sr.roll, marks |-> sr.marks, total |-> sr.total, pct |-> sr.pct, rank |-> sr.rank]

Threw == [threw |-> TRUE, subjects |-> <<>>, entries |-> <<>>]

\* result.calculateRanks() on the constructed Result
RankedResult(subjs, added) ==
    IF added.threw THEN Threw
    ELSE [threw |-> FALSE, subjects |-> subjs, entries |-> CalculateRanksOn(added.entries)]

\* new Result(id, title, subjects, studentResults) on the subjects and StudentResults made
ResultOfParts(data, subjs, made) ==
    IF \/ \E i \in DOMAIN data.subjects : SubjectThrows(data.subjects[i])
       \/ \E i \in DOMAIN made : made[i] = NoObj
       \/ ResultThrows(data.id, data.title, subjs)
    THEN Threw
    ELSE RankedResult(subjs, AddAll(subjs, <<>>, [i \in DOMAIN made |-> Stored(made[i])]))

\* Result.fromRawData(data): [threw, subjects, entries]
FromRawData(data) ==
    ResultOfParts(data,
        [i \in DOMAIN data.subjects |-> Trim(data.subjects[i])],
        [i \in DOMAIN data.studentData |->
            StudentResultFromRaw(data.subjects, data.studentData[i])])

(***************************************************************************)
(* The validation gate followed by the construction of the Result          *)
(***************************************************************************)
MaxRows == 2

Row(name, roll, math, sci) == [Name |-> name, Roll |-> roll, Math |-> math, Sci |-> sci]

NameCells == { StrV(<<"A", "b">>), StrV(<<"a", "b", " ">>), StrV(<<>>), StrV(<<"A", "1">>) }
RollCells == { StrV(<<"r">>), StrV(<<"R", " ">>), NumV(N(7)), StrV(<<>>) }
MarkCells ==
    { <<NumV(N(101)), NumV(N(50))>>, <<StrV(<<"a", "b">>), NumV(N(50))>>,
      <<NumV(N(5)), NumV(N(5))>>, <<NumV(N(0)), NumV(N(0))>>,
      <<StrV(<<" ", "4", "0">>), NumV(N(100))>> }

\* the rows vary one cell of a well-formed row at a time
RowPool ==
    { Row(n, StrV(<<"r">>), NumV(N(50)), NumV(N(50))) : n \in NameCells }
    \cup { Row(StrV(<<"A", "b">>), r, NumV(N(50)), NumV(N(50))) : r \in RollCells }
    \cup { Row(StrV(<<"A", "b">>), StrV(<<"r">>), m[1], m[2]) : m \in MarkCells }

Batches == UNION { [1..k -> RowPool] : k \in 0..MaxRows }

NameMapping == Mapping("Name", "studentName", <<>>)
RollMapping == Mapping("Roll", "rollNumber", <<>>)
MathMapping == Mapping("Math", "subject", <<"m", "a", "t", "h">>)
SciMapping == Mapping("Sci", "subject", <<"s", "c", "i">>)

MappingOptions ==
    { <<NameMapping, RollMapping, MathMapping, SciMapping>>,
      <<NameMapping, RollMapping, MathMapping>>,
      <<NameMapping, RollMapping>>,
      <<RollMapping, MathMapping>> }

RuleOptions ==
    { <<>>,
      <<Rule("custom_throws", "studentName", "warning")>>,
      <<Rule("custom_rejects", "marks", "warning")>>,
      <<Rule("custom_rejects", "marks", "error")>> }

\* the mappings and custom rules of a call: custom rules come with the full mapping
CallOptions ==
    { <<m, <<>> >> : m \in MappingOptions }
    \cup { << <<NameMapping, RollMapping, MathMapping, SciMapping>>, r>> : r \in RuleOptions }

\* the studentData elements of the transformed rows
StudentDataOf(transformedRows) ==
    [i \in DOMAIN transformedRows |->
        [ name |-> transformedRows[i].studentName,
          rollNumber |-> transformedRows[i].rollNumber,
          marks |-> transformedRows[i].marks ]]

\* the raw data the validated rows are handed to Result.fromRawData as
RawDataOf(rows, ms) ==
    [ id |-> <<"r", "1">>,
      title |-> <<"T">>,
      subjects |-> SubjectsOf(ms),
      studentData |-> StudentDataOf(TransformRowsForValidation(rows, ms)) ]

\* ValidationService.validateData(data, mappings, customRules)
RunValidateData ==
    /\ vres = NoResult
    /\ vres' = ValidateData(batch, mappings, customRules)
    /\ UNCHANGED <<batch, mappings, customRules, built, voVars, resVars, exVars, toolVars>>

\* Result.fromRawData on a batch the gate reported valid
BuildValidated ==
    /\ vres /= NoResult
    /\ vres.isValid
    /\ built = "none"
    /\ \E r \in {FromRawData(RawDataOf(batch, mappings))} :
           IF r.threw
           THEN /\ built' = "throw"
                /\ UNCHANGED resVars
           ELSE /\ built' = "ok"
                /\ subjects' = r.subjects
                /\ studentResults' = r.entries
                /\ resState' = "ok"
                /\ lastOp' = Op("fromRawData", FALSE, 0, FALSE)
    /\ UNCHANGED <<batch, mappings, customRules, vres, voVars, exVars, toolVars>>

InitVal ==
    /\ IdleVO /\ IdleRes /\ IdleEx /\ IdleTools
    /\ batch \in Batches
    /\ \E o \in CallOptions : mappings = o[1] /\ customRules = o[2]
    /\ vres = NoResult
    /\ built = "none"

NextVal ==
    \/ RunValidateData
    \/ BuildValidated

\* a parsed batch is validated and, when reported valid, built into a Result
SpecVal == InitVal /\ [][NextVal]_vars

\* C3: every batch validateData reports valid is built by Result.fromRawData without
\* a construction failure.  Stated for the batches that hold at least one row and
\* whose name and roll number cells are strings, so that neither an empty sheet nor
\* the type of a cell is what fails.
C3_ValidatedBatchBuilds ==
    (/\ vres /= NoResult
     /\ vres.isValid
     /\ Len(batch) >= 1
     /\ \A i \in DOMAIN batch : batch[i].Name.t = "str" /\ batch[i].Roll.t = "str")
        => built /= "throw"

Transformed == TransformRowsForValidation(batch, mappings)

\* rows i and j carry roll numbers (names) that are equal but for case and
\* surrounding whitespace
SameRoll(i, j) ==
    /\ i /= j
    /\ Truthy(Transformed[i].rollNumber) /\ Truthy(Transformed[j].rollNumber)
    /\ ToLowerCase(Trim(ToStr(Transformed[i].rollNumber)))
          = ToLowerCase(Trim(ToStr(Transformed[j].rollNumber)))
SameName(i, j) ==
    /\ i /= j
    /\ Truthy(Transformed[i].studentName) /\ Truthy(Transformed[j].studentName)
    /\ ToLowerCase(Trim(ToStr(Transformed[i].studentName)))
          = ToLowerCase(Trim(ToStr(Transformed[j].studentName)))

\* C6: two rows whose roll numbers are equal ignoring case and surrounding whitespace
\* produce exactly one global error entry, which lists that roll number; two rows that
\* share only a name produce a global warning and no global error.
C6_DuplicateRollErrorNameWarning ==
    vres /= NoResult =>
        \A i, j \in DOMAIN batch :
            /\ SameRoll(i, j) =>
                  /\ Len(vres.globalErrors) = 1
                  /\ \E k \in DOMAIN vres.globalErrors[1].listed :
                        vres.globalErrors[1].listed[k]
                            = ToLowerCase(Trim(ToStr(Transformed[i].rollNumber)))
                  /\ Cardinality({k \in DOMAIN vres.globalErrors[1].listed :
                        vres.globalErrors[1].listed[k]
                            = ToLowerCase(Trim(ToStr(Transformed[i].rollNumber)))}) = 1
            /\ (SameName(i, j) /\ \A a, b \in DOMAIN batch : ~SameRoll(a, b)) =>
                  /\ Len(vres.globalWarnings) = 1
                  /\ vres.globalErrors = <<>>

\* the rolls "r" and "R " of two rows with different names are reported as one error
C6_Witness ==
    /\ vres /= NoResult
    /\ Len(batch) = 2
    /\ batch[1].Roll = StrV(<<"r">>)
    /\ batch[2].Roll = StrV(<<"R", " ">>)
    /\ ~SameName(1, 2)
    /\ Len(vres.globalErrors) = 1
    /\ vres.globalErrors[1].listed = << <<"r">> >>
    /\ vres.globalWarnings = <<>>

\* the severity of the rule an issue names, among the rules of the call
IsWarningRule(name) ==
    \E k \in DOMAIN (DEFAULT_RULES \o customRules) :
        /\ (DEFAULT_RULES \o customRules)[k].name = name
        /\ (DEFAULT_RULES \o customRules)[k].severity = "warning"

\* C7: a rule of severity warning never invalidates a record: whatever its validator
\* does, it adds no entry to the record's errors and does not make isValid false.
C7_WarningRuleNeverInvalidates ==
    vres /= NoResult =>
        \A i \in DOMAIN vres.rowResults :
            \A e \in DOMAIN vres.rowResults[i].errors :
                ~IsWarningRule(vres.rowResults[i].errors[e].rule)

(***************************************************************************)
(* AnalyzeResultUseCase.execute                                            *)
(***************************************************************************)
Failure(errors) == [kind |-> "response", success |-> FALSE, errors |-> errors, resultId |-> <<>>]
Success(id) == [kind |-> "response", success |-> TRUE, errors |-> <<>>, resultId |-> id]

StudentRequestErrors(sd) ==
    (IF ~Truthy(sd.name) THEN <<"Name is required">> ELSE <<>>)
    \o (IF ~Truthy(sd.rollNumber) THEN <<"Roll number is required">> ELSE <<>>)
    \o (IF sd.marks = <<>> THEN <<"Marks data is required">> ELSE <<>>)

RECURSIVE AllStudentRequestErrors(_)
AllStudentRequestErrors(sds) ==
    IF sds = <<>> THEN <<>>
    ELSE StudentRequestErrors(Head(sds)) \o AllStudentRequestErrors(Tail(sds))

\* AnalyzeResultUseCase.validateRequest: the errors it collects
RequestErrors(req) ==
    IF ~req.hasResultData THEN <<"Result data is required">>
    ELSE (IF req.resultData.id = <<>> THEN <<"Result ID is required">> ELSE <<>>)
         \o (IF req.resultData.title = <<>> THEN <<"Result title is required">> ELSE <<>>)
         \o (IF req.resultData.subjects = <<>> THEN <<"At least one subject is required">> ELSE <<>>)
         \o (IF req.resultData.studentData = <<>>
             THEN <<"At least one student record is required">> ELSE <<>>)
         \o AllStudentRequestErrors(req.resultData.studentData)
         \o (IF req.userId = <<>> THEN <<"User ID is required">> ELSE <<>>)

\* the requests: the raw data of a parsed batch of at most one row under some
\* mappings, with or without id, title and user id
ExBatches == { b \in Batches : Len(b) <= 1 }
ExIds == { <<>>, <<"r", "1">> }
ExTitles == { <<>>, <<"T">> }
UserIds == { <<>>, <<"u">> }

RequestOf(b, m, id, title, user, ranks, hasData) ==
    [ kind |-> "request",
      hasResultData |-> hasData,
      resultData |-> [RawDataOf(b, m) EXCEPT !.id = id, !.title = title],
      userId |-> user,
      generateRanks |-> ranks ]

\* step 1: await this.authPort.isAuthenticated()
Authenticate ==
    /\ pc = "start"
    /\ \E authResult \in BOOLEAN :
          IF authResult
          THEN pc' = "validate" /\ UNCHANGED response
          ELSE pc' = "done" /\ response' = Failure(<<"User not authenticated">>)
    /\ UNCHANGED <<request, valVars, voVars, resVars, toolVars>>

\* step 2: this.validateRequest(request)
ValidateRequest ==
    /\ pc = "validate"
    /\ IF RequestErrors(request) = <<>>
       THEN pc' = "create" /\ UNCHANGED response
       ELSE pc' = "done" /\ response' = Failure(RequestErrors(request))
    /\ UNCHANGED <<request, valVars, voVars, resVars, toolVars>>

\* step 3: Result.fromRawData(request.resultData); a throw is caught at the end of
\* execute and answered with a failure
CreateResult ==
    /\ pc = "create"
    /\ \E r \in {FromRawData(request.resultData)} :
           IF r.threw
           THEN /\ built' = "throw"
                /\ pc' = "done"
                /\ response' = Failure(<<"Analysis failed">>)
                /\ UNCHANGED resVars
           ELSE /\ built' = "ok"
                /\ pc' = "rank"
                /\ subjects' = r.subjects
                /\ studentResults' = r.entries
                /\ resState' = "ok"
                /\ lastOp' = Op("fromRawData", FALSE, 0, FALSE)
                /\ UNCHANGED response
    /\ UNCHANGED <<request, batch, mappings, customRules, vres, voVars, toolVars>>

\* steps 4 and 5: result.calculateRanks() unless generateRanks is false
GenerateRanks ==
    /\ pc = "rank"
    /\ pc' = "analyze"
    /\ IF request.generateRanks
       THEN /\ studentResults' = CalculateRanksOn(studentResults)
            /\ lastOp' = Op("calculateRanks", FALSE, 1, FALSE)
       ELSE UNCHANGED <<studentResults, lastOp>>
    /\ UNCHANGED <<request, response, subjects, resState, valVars, voVars, toolVars>>

\* step 6: performAnalysis and the answer
PerformAnalysis ==
    /\ pc = "analyze"
    /\ pc' = "done"
    /\ response' = Success(request.resultData.id)
    /\ UNCHANGED <<request, valVars, voVars, resVars, toolVars>>

\* the caller may have run the ValidationEngine on the batch; execute does not
CallerValidates ==
    /\ pc /= "done"
    /\ vres = NoResult
    /\ vres' = ValidateData(batch, mappings, customRules)
    /\ UNCHANGED <<batch, mappings, customRules, built, voVars, resVars, exVars, toolVars>>

InitEx ==
    /\ IdleVO /\ IdleRes /\ IdleTools
    /\ batch \in ExBatches
    /\ mappings \in MappingOptions
    /\ customRules = <<>>
    /\ vres = NoResult
    /\ built = "none"
    /\ pc = "start"
    /\ \E id \in ExIds, title \in ExTitles, user \in UserIds, ranks \in BOOLEAN, hasData \in BOOLEAN :
          request = RequestOf(batch, mappings, id, title, user, ranks, hasData)
    /\ response = NoResult

NextEx ==
    \/ Authenticate
    \/ ValidateRequest
    \/ CreateResult
    \/ GenerateRanks
    \/ PerformAnalysis
    \/ CallerValidates

\* one call of AnalyzeResultUseCase.execute
SpecEx == InitEx /\ [][NextEx]_vars

\* C4: in execute, Result.fromRawData is invoked only on input the ValidationEngine
\* has validated to completion and reported valid.
C4_NoConstructionBeforeValidationGate ==
    built /= "none" => (vres /= NoResult /\ vres.isValid)

(***************************************************************************)
(* ColumnMapper                                                            *)
(***************************************************************************)
REQUIRED_FIELDS == <<"studentName", "rollNumber">>

OPTIONAL_FIELDS ==
    <<"class", "section", "fatherName", "motherName", "dateOfBirth", "totalMarks",
      "percentage", "grade", "rank">>

\* A pattern /^(a|b|...)$/i is the sequence of its alternatives; an alternative is a
\* literal, or pre.*suf.  No header of the model holds a line break, the one character
\* the dot does not match.
Alt(pre, suf) == [pre |-> pre, suf |-> suf, star |-> TRUE]
Lit(w) == [pre |-> w, suf |-> <<>>, star |-> FALSE]

FIELD_PATTERNS ==
    << [ field |-> "studentName",
         patterns |->
           << << Alt(<<"s", "t", "u", "d", "e", "n", "t">>, <<"n", "a", "m", "e">>), Alt(<<"n", "a", "m", "e">>, <<"s", "t", "u", "d", "e", "n", "t">>), Lit(<<"s", "t", "u", "d", "e", "n", "t">>),
                 Lit(<<"n", "a", "m", "e">>) >>,
              << Alt(<<"f", "u", "l", "l">>, <<"n", "a", "m", "e">>), Alt(<<"c", "o", "m", "p", "l", "e", "t", "e">>, <<"n", "a", "m", "e">>) >>,
              << Alt(<<"f", "i", "r", "s", "t">>, <<"n", "a", "m", "e">>), Alt(<<"l", "a", "s", "t">>, <<"n", "a", "m", "e">>) >> >> ],
       [ field |-> "rollNumber",
         patterns |->
           << << Alt(<<"r", "o", "l", "l">>, <<"n", "u", "m">>), Alt(<<"r", "o", "l", "l">>, <<"n", "o">>), Lit(<<"r", "o", "l", "l">>),
                 Alt(<<"a", "d", "m", "i", "s", "s", "i", "o", "n">>, <<"n", "o">>), Lit(<<"i", "d">>), Alt(<<"s", "t", "u", "d", "e", "n", "t">>, <<"i", "d">>) >>,
              << Alt(<<"r", "e", "g">>, <<"n", "o">>), Lit(<<"r", "e", "g", "i", "s", "t", "r", "a", "t", "i", "o", "n">>), Alt(<<"r", "e", "g">>, <<"n", "u", "m">>) >>,
              << Alt(<<"i", "n", "d", "e", "x">>, <<"n", "o">>), Lit(<<"i", "n", "d", "e", "x">>) >> >> ],
       [ field |-> "class",
         patterns |->
           << << Lit(<<"c", "l", "a", "s", "s">>), Lit(<<"s", "t", "a", "n", "d", "a", "r", "d">>), Lit(<<"s", "t", "d">>), Lit(<<"g", "r", "a", "d", "e">>),
                 Lit(<<"l", "e", "v", "e", "l">>) >>,
              << Alt(<<"c", "l", "a", "s", "s">>, <<"n", "a", "m", "e">>), Alt(<<"c", "l", "a", "s", "s">>, <<"n", "u", "m">>) >> >> ],
       [ field |-> "section",
         patterns |->
           << << Lit(<<"s", "e", "c", "t", "i", "o", "n">>), Lit(<<"s", "e", "c">>), Lit(<<"d", "i", "v", "i", "s", "i", "o", "n">>), Lit(<<"d", "i", "v">>) >>,
              << Alt(<<"c", "l", "a", "s", "s">>, <<"s", "e", "c", "t", "i", "o", "n">>), Alt(<<"s", "e", "c">>, <<"n", "a", "m", "e">>) >> >> ],
       [ field |-> "totalMarks",
         patterns |->
           << << Alt(<<"t", "o", "t", "a", "l">>, <<"m", "a", "r", "k">>), Alt(<<"t", "o", "t", "a", "l">>, <<"s", "c", "o", "r", "e">>), Lit(<<"t", "o", "t", "a", "l">>),
                 Alt(<<"g", "r", "a", "n", "d">>, <<"t", "o", "t", "a", "l">>) >>,
              << Alt(<<"s", "u", "m">>, <<"m", "a", "r", "k">>), Lit(<<"a", "g", "g", "r", "e", "g", "a", "t", "e">>), Lit(<<"o", "v", "e", "r", "a", "l", "l">>) >> >> ],
       [ field |-> "percentage",
         patterns |->
           << << Lit(<<"p", "e", "r", "c", "e", "n", "t">>), Lit(<<"p", "e", "r", "c", "e", "n", "t", "a", "g", "e">>), Lit(<<"%">>), Lit(<<"p", "e", "r">>) >>,
              << Alt(<<"p", "e", "r", "c", "e", "n", "t">>, <<"m", "a", "r", "k">>), Alt(<<"m", "a", "r", "k">>, <<"p", "e", "r", "c", "e", "n", "t">>) >> >> ],
       [ field |-> "grade",
         patterns |->
           << << Lit(<<"g", "r", "a", "d", "e">>), Alt(<<"l", "e", "t", "t", "e", "r">>, <<"g", "r", "a", "d", "e">>), Alt(<<"f", "i", "n", "a", "l">>, <<"g", "r", "a", "d", "e">>) >>,
              << Alt(<<"c", "l", "a", "s", "s">>, <<"g", "r", "a", "d", "e">>), Alt(<<"o", "v", "e", "r", "a", "l", "l">>, <<"g", "r", "a", "d", "e">>) >> >> ],
       [ field |-> "rank",
         patterns |->
           << << Lit(<<"r", "a", "n", "k">>), Lit(<<"p", "o", "s", "i", "t", "i", "o", "n">>), Lit(<<"p", "o", "s">>), Lit(<<"s", "t", "a", "n", "d", "i", "n", "g">>) >>,
              << Alt(<<"c", "l", "a", "s", "s">>, <<"r", "a", "n", "k">>), Alt(<<"o", "v", "e", "r", "a", "l", "l">>, <<"r", "a", "n", "k">>) >> >> ] >>

EndsWith(s, w) == Len(s) >= Len(w) /\ SubSeq(s, Len(s) - Len(w) + 1, Len(s)) = w

\* the whole of text is matched by one alternative
AltMatches(alt, text) ==
    IF alt.star
    THEN /\ Len(text) >= Len(alt.pre) + Len(alt.suf)
         /\ StartsWithAt(text, 1, alt.pre)
         /\ EndsWith(text, alt.suf)
    ELSE text = alt.pre

\* pattern.test(text); the i flag makes the letters' case irrelevant
PatternTest(pattern, text) ==
    \E k \in DOMAIN pattern : AltMatches(pattern[k], ToLowerCase(text))

\* ColumnMapper.calculatePatternConfidence
CalculatePatternConfidence(text, pattern) ==
    IF PatternTest(pattern, text) THEN Rat(4, 5) ELSE N(0)

HighConfidence == Rat(3, 5)
LowConfidence == Rat(3, 10)

NoMatch == [field |-> "none", confidence |-> N(0)]

\* bestMatch after the patterns of one field, from the k-th on
RECURSIVE BestOfPatterns(_, _, _, _, _)
BestOfPatterns(field, patterns, k, text, bestMatch) ==
    IF k > Len(patterns) THEN bestMatch
    ELSE BestOfPatterns(field, patterns, k + 1, text,
            IF /\ PatternTest(patterns[k], text)
               /\ \/ bestMatch = NoMatch
                  \/ Gt(CalculatePatternConfidence(text, patterns[k]), bestMatch.confidence)
            THEN [field |-> field, confidence |-> CalculatePatternConfidence(text, patterns[k])]
            ELSE bestMatch)

\* bestMatch after the fields of FIELD_PATTERNS from the f-th on, had no field been skipped
RECURSIVE BestMatchOfAll(_, _, _, _)
BestMatchOfAll(f, text, mappedFields, bestMatch) ==
    IF f > Len(FIELD_PATTERNS) THEN bestMatch
    ELSE BestMatchOfAll(f + 1, text, mappedFields,
            BestOfPatterns(FIELD_PATTERNS[f].field, FIELD_PATTERNS[f].patterns, 1,
                           text, bestMatch))

\* bestMatch after the fields of FIELD_PATTERNS from the f-th on; a mapped field is skipped
RECURSIVE BestMatch(_, _, _, _)
BestMatch(f, text, mappedFields, bestMatch) ==
    IF f > Len(FIELD_PATTERNS) THEN bestMatch
    ELSE BestMatch(f + 1, text, mappedFields,
            IF FIELD_PATTERNS[f].field \in mappedFields THEN bestMatch
            ELSE BestOfPatterns(FIELD_PATTERNS[f].field, FIELD_PATTERNS[f].patterns, 1,
                                text, bestMatch))

\* ColumnMapper.matchesStandardField: the fields without patterns match nothing
MatchesStandardField(header) ==
    \E f \in DOMAIN FIELD_PATTERNS :
        /\ \E k \in DOMAIN (REQUIRED_FIELDS \o OPTIONAL_FIELDS) :
              (REQUIRED_FIELDS \o OPTIONAL_FIELDS)[k] = FIELD_PATTERNS[f].field
        /\ \E p \in DOMAIN FIELD_PATTERNS[f].patterns :
              PatternTest(FIELD_PATTERNS[f].patterns[p], ToLowerCase(header))

\* row[header]
CellOf(row, header) == IF header \in DOMAIN row THEN row[header] ELSE Undef

\* v !== null && v !== undefined && v !== ''
IsFilled(v) == v /= Undef /\ v /= StrV(<<>>)

\* !isNaN(parseFloat(String(v)))
IsNumericCell(v) == ~IsNaN(ParseFloat(ToStr(v)))

NumericRatio == Rat(7, 10)

\* looksLikeSubjectColumn, from the non-empty values of the column on
MostlyNumeric(header, values) ==
    IF Len(values) = 0 THEN FALSE
    ELSE /\ Gt(Div(N(Len(SelectSeq(values, IsNumericCell))), N(Len(values))), NumericRatio)
         /\ ~MatchesStandardField(header)

\* ColumnMapper.looksLikeSubjectColumn
LooksLikeSubjectColumn(header, rows) ==
    MostlyNumeric(header, SelectSeq([i \in DOMAIN rows |-> CellOf(rows[i], header)], IsFilled))

IsAlnumOrSpace(c) == IsLetter(c) \/ IsDigit(c) \/ c = " "

\* replace(/\s+/g, '_')
RECURSIVE UnderscoreSpaces(_)
UnderscoreSpaces(s) ==
    IF s = <<>> THEN <<>>
    ELSE IF Head(s) = " " THEN <<"_">> \o UnderscoreSpaces(TrimStart(s))
    ELSE <<Head(s)>> \o UnderscoreSpaces(Tail(s))

\* ColumnMapper.normalizeSubjectName
NormalizeSubjectName(name) ==
    ToLowerCase(UnderscoreSpaces(SelectSeq(Trim(name), IsAlnumOrSpace)))

\* ColumnMapper.getFieldDataType
GetFieldDataType(fieldName) ==
    IF fieldName \in {"totalMarks", "percentage", "rank"} THEN "number"
    ELSE IF fieldName \in {"dateOfBirth"} THEN "date"
    ELSE "string"

\* ColumnMapper.getFieldTransformer: which of the transformers the field gets
GetFieldTransformer(fieldName) ==
    IF fieldName \in {"studentName", "class", "section", "rollNumber"} THEN "trimmed string"
    ELSE IF fieldName \in {"totalMarks", "percentage", "rank"} THEN "number or 0"
    ELSE "undefined"

IsRequiredField(field) == \E k \in DOMAIN REQUIRED_FIELDS : REQUIRED_FIELDS[k] = field

\* the mapping pushed for a field matched with high confidence
FieldMapping(header, field) ==
    [ excelColumn |-> header, dataField |-> field, subject |-> <<>>,
      isRequired |-> IsRequiredField(field),
      dataType |-> GetFieldDataType(field),
      transformer |-> GetFieldTransformer(field) ]

\* the mapping pushed for a subject column: dataField is subject_ and the normalized name
SubjectMapping(header) ==
    [ excelColumn |-> header, dataField |-> "subject", subject |-> NormalizeSubjectName(header),
      isRequired |-> FALSE, dataType |-> "number", transformer |-> "marks" ]

Suggestion(column, field, confidence, reason) ==
    [ excelColumn |-> column, suggestedField |-> field, confidence |-> confidence,
      reason |-> reason ]

Min3(a, b, c) == IF a <= b /\ a <= c THEN a ELSE IF b <= c THEN b ELSE c

\* the row matrix[i] of levenshteinDistance: above is matrix[i - 1], row holds the cells
\* of matrix[i] filled so far (matrix[i][0] = i first), c is str2.charAt(i - 1)
RECURSIVE LevenshteinRow(_, _, _, _)
LevenshteinRow(above, c, str1, row) ==
    IF Len(row) > Len(str1) THEN row
    ELSE LevenshteinRow(above, c, str1,
            Append(row, IF c = str1[Len(row)] THEN above[Len(row)]
                        ELSE Min3(above[Len(row)] + 1, row[Len(row)] + 1,
                                  above[Len(row) + 1] + 1)))

\* the matrix, from the rows filled so far (matrix[0][j] = j first)
RECURSIVE LevenshteinMatrix(_, _, _)
LevenshteinMatrix(str1, str2, matrix) ==
    IF Len(matrix) > Len(str2) THEN matrix
    ELSE LevenshteinMatrix(str1, str2,
            Append(matrix, LevenshteinRow(matrix[Len(matrix)], str2[Len(matrix)], str1,
                                          <<Len(matrix)>>)))

\* ColumnMapper.levenshteinDistance: matrix[str2.length][str1.length]
LevenshteinDistance(str1, str2) ==
    LevenshteinMatrix(str1, str2, << [j \in 1..(Len(str1) + 1) |-> j - 1] >>)
        [Len(str2) + 1][Len(str1) + 1]

\* calculateStringSimilarity on the longer and the shorter of the two strings
SimilarityOf(longer, shorter) ==
    IF Len(longer) = 0 THEN N(1)
    ELSE Rat(Len(longer) - LevenshteinDistance(longer, shorter), Len(longer))

\* ColumnMapper.calculateStringSimilarity
CalculateStringSimilarity(str1, str2) ==
    SimilarityOf(IF Len(str1) > Len(str2) THEN str1 ELSE str2,
                 IF Len(str1) > Len(str2) THEN str2 ELSE str1)

\* the characters of a field name
FieldName(field) ==
    IF field = "studentName" THEN <<"s", "t", "u", "d", "e", "n", "t", "N", "a", "m", "e">> ELSE <<"r", "o", "l", "l", "N", "u", "m", "b", "e", "r">>

\* the outcome of one header of the forEach, given its bestMatch
HeaderOutcome(acc, header, rows, bestMatch) ==
    IF bestMatch /= NoMatch /\ Gt(bestMatch.confidence, HighConfidence)
    THEN [acc EXCEPT !.mappings = Append(@, FieldMapping(header, bestMatch.field)),
                     !.mappedFields = @ \cup {bestMatch.field}]
    ELSE IF bestMatch /= NoMatch /\ Gt(bestMatch.confidence, LowConfidence)
    THEN [acc EXCEPT !.suggestions =
                        Append(@, Suggestion(header, bestMatch.field, bestMatch.confidence,
                                             "Column name similarity")),
                     !.unmappedColumns = Append(@, header)]
    ELSE IF LooksLikeSubjectColumn(header, rows)
    THEN [acc EXCEPT !.mappings = Append(@, SubjectMapping(header))]
    ELSE [acc EXCEPT !.unmappedColumns = Append(@, header)]

\* headers.forEach from the k-th header on
RECURSIVE MapHeaders(_, _, _, _)
MapHeaders(hs, k, rows, acc) ==
    IF k > Len(hs) THEN acc
    ELSE MapHeaders(hs, k + 1, rows,
            HeaderOutcome(acc, hs[k], rows,
                          BestMatch(1, ToLowerCase(Trim(hs[k])), acc.mappedFields, NoMatch)))

\* REQUIRED_FIELDS.filter(field => !mappedFields.has(field)), from the k-th field on
RECURSIVE MissingRequired(_, _)
MissingRequired(k, mappedFields) ==
    IF k > Len(REQUIRED_FIELDS) THEN <<>>
    ELSE (IF REQUIRED_FIELDS[k] \in mappedFields THEN <<>> ELSE <<REQUIRED_FIELDS[k]>>)
         \o MissingRequired(k + 1, mappedFields)

\* the unmapped columns with their similarity to the missing field, those above 0.3
RECURSIVE SimilarColumns(_, _)
SimilarColumns(columns, missingField) ==
    IF columns = <<>> THEN <<>>
    ELSE (IF Gt(CalculateStringSimilarity(ToLowerCase(Head(columns)), FieldName(missingField)),
                LowConfidence)
          THEN <<[ column |-> Head(columns),
                   similarity |-> CalculateStringSimilarity(ToLowerCase(Head(columns)),
                                                            FieldName(missingField)) ]>>
          ELSE <<>>) \o SimilarColumns(Tail(columns), missingField)

\* sort((a, b) => b.similarity - a.similarity): the item goes behind the sorted items
\* that are not smaller (the sort is stable)
RECURSIVE InsertBySimilarity(_, _)
InsertBySimilarity(sorted, item) ==
    IF sorted = <<>> THEN <<item>>
    ELSE IF Gt(item.similarity, Head(sorted).similarity) THEN <<item>> \o sorted
    ELSE <<Head(sorted)>> \o InsertBySimilarity(Tail(sorted), item)

RECURSIVE SortBySimilarity(_, _)
SortBySimilarity(items, sorted) ==
    IF items = <<>> THEN sorted
    ELSE SortBySimilarity(Tail(items), InsertBySimilarity(sorted, Head(items)))

\* the suggestion pushed for a missing field, given its sorted unmappedSuggestions
MissingSuggestion(missingField, unmappedSuggestions) ==
    IF Len(unmappedSuggestions) > 0
    THEN <<Suggestion(unmappedSuggestions[1].column, missingField,
                      unmappedSuggestions[1].similarity,
                      "Suggested for missing required field")>>
    ELSE <<>>

\* missingRequiredFields.forEach
RECURSIVE MissingSuggestions(_, _)
MissingSuggestions(missing, unmappedColumns) ==
    IF missing = <<>> THEN <<>>
    ELSE MissingSuggestion(Head(missing),
                           SortBySimilarity(SimilarColumns(unmappedColumns, Head(missing)), <<>>))
         \o MissingSuggestions(Tail(missing), unmappedColumns)

IsRequiredMapping(m) == m.isRequired

\* what autoMapColumns returns, from the state the forEach over the headers leaves
AutoMappingResult(acc) ==
    [ mappings |-> acc.mappings,
      confidence |-> Div(N(Len(SelectSeq(acc.mappings, IsRequiredMapping))),
                         N(Len(REQUIRED_FIELDS))),
      suggestions |-> acc.suggestions
                      \o MissingSuggestions(MissingRequired(1, acc.mappedFields),
                                            acc.unmappedColumns),
      unmappedColumns |-> acc.unmappedColumns,
      missingRequiredFields |-> MissingRequired(1, acc.mappedFields) ]

\* the mappedFields set had been kept from the run before
MappedFieldsKept(runs) ==
    IF runs = <<>> THEN {}
    ELSE { runs[Len(runs)].mappings[k].dataField : k \in DOMAIN runs[Len(runs)].mappings }
         \ {"subject"}

\* const mappedFields = new Set<string>(): every run starts from the empty set
MappedFieldsAtStart(runs) == {}

\* ColumnMapper.autoMapColumns, the set of mapped fields starting as given
AutoMapColumnsFrom(hs, rows, mappedFields) ==
    AutoMappingResult(
        MapHeaders(hs, 1, rows,
                   [ mappings |-> <<>>, suggestions |-> <<>>, unmappedColumns |-> <<>>,
                     mappedFields |-> mappedFields ]))

MaxHeaders == 2
MaxRuns == 2

RollNo == <<"R", "o", "l", "l", " ", "N", "o">>
RollNumberHeader == <<"R", "o", "l", "l", " ", "N", "u", "m", "b", "e", "r">>
AdmissionNo == <<"A", "d", "m", "i", "s", "s", "i", "o", "n", " ", "N", "o">>

HeaderPool == { RollNo, RollNumberHeader, AdmissionNo, <<"N", "a", "m", "e">>, <<" ", "M", "a", "t", "h">>, <<"R", "o", "l", "l">> }

HeaderLists == UNION { [1..k -> HeaderPool] : k \in 0..MaxHeaders }

\* sample rows: every column holds the number 7, the text x, or nothing
NumericRow == [h \in HeaderPool |-> NumV(N(7))]
TextRow == [h \in HeaderPool |-> StrV(<<"x">>)]
EmptyRow == [h \in HeaderPool |-> StrV(<<>>)]

SampleRowOptions ==
    { <<>>, <<NumericRow>>, <<TextRow, EmptyRow>>, <<NumericRow, TextRow>>,
      <<NumericRow, NumericRow, EmptyRow, NumericRow, TextRow>> }

\* ColumnMapper.autoMapColumns(headers, sampleRows)
AutoMapColumns ==
    /\ Len(mapRuns) < MaxRuns
    /\ mapRuns' = Append(mapRuns, AutoMapColumnsFrom(headers, sampleRows,
                                                    MappedFieldsAtStart(mapRuns)))
    /\ UNCHANGED <<headers, sampleRows, voVars, resVars, valVars, exVars, parseVars, calcVars, applyVars, portVars>>

InitMap ==
    /\ IdleVO /\ IdleRes /\ IdleVal /\ IdleEx /\ IdleParse /\ IdleCalc /\ IdleApply /\ IdlePorts
    /\ headers \in HeaderLists
    /\ sampleRows \in SampleRowOptions
    /\ mapRuns = <<>>

NextMap == AutoMapColumns

\* autoMapColumns is run, and run again, on one header list and one list of sample rows
SpecMap == InitMap /\ [][NextMap]_vars

\* the header is the only header of the list that names a roll number
OnlyRollHeader(h) ==
    /\ \E k \in DOMAIN headers : headers[k] = h
    /\ \A k \in DOMAIN headers : headers[k] \in {h, <<"N", "a", "m", "e">>, <<" ", "M", "a", "t", "h">>}
    /\ Len(SelectSeq(headers, LAMBDA x : x = h)) = 1

\* the run accepted a mapping of the header to rollNumber
MapsToRollNumber(run, h) ==
    \E k \in DOMAIN run.mappings :
        run.mappings[k].excelColumn = h /\ run.mappings[k].dataField = "rollNumber"

\* C11: each of the headers "Roll No", "Roll Number" and "Admission No", when it is the
\* only roll-like header of the list, is mapped by autoMapColumns to rollNumber as an
\* accepted mapping (a mapping is accepted only with a confidence above 0.6).
C11_RollHeadersAutoMap ==
    \A h \in {RollNo, RollNumberHeader, AdmissionNo} :
        \A r \in DOMAIN mapRuns :
            OnlyRollHeader(h) => MapsToRollNumber(mapRuns[r], h)

ClaimsField(h, field) ==
    /\ BestMatch(1, ToLowerCase(Trim(h)), {}, NoMatch).field = field
    /\ Gt(BestMatch(1, ToLowerCase(Trim(h)), {}, NoMatch).confidence, HighConfidence)

\* C25: the mappings returned by autoMapColumns hold at most one mapping per target
\* field other than the subject fields: once a header has claimed a field, no later
\* header is mapped to that field.
C25_OneMappingPerField ==
    \A r \in DOMAIN mapRuns :
        \A i, j \in DOMAIN mapRuns[r].mappings :
            (/\ i /= j
             /\ mapRuns[r].mappings[i].dataField /= "subject")
            => mapRuns[r].mappings[i].dataField /= mapRuns[r].mappings[j].dataField

\* two headers that each alone would be mapped to rollNumber; the run mapped the first
C25_Witness ==
    /\ Len(headers) = 2 /\ headers[1] /= headers[2]
    /\ ClaimsField(headers[1], "rollNumber") /\ ClaimsField(headers[2], "rollNumber")
    /\ Len(mapRuns) >= 1
    /\ Len(mapRuns[1].mappings) = 1
    /\ mapRuns[1].mappings[1].excelColumn = headers[1]
    /\ mapRuns[1].mappings[1].dataField = "rollNumber"

(***************************************************************************)
(* ExcelParser                                                             *)
(***************************************************************************)
\* A cell of a sheet may also hold a Date; s is its day as toISOString() writes it.
DateV(iso) == [t |-> "date", n |-> NaN, s |-> iso]
EmptyCell == StrV(<<>>)

\* the digits after the decimal point of rem/den, for a fraction that ends
RECURSIVE FractionDigits(_, _)
FractionDigits(rem, den) ==
    IF rem = 0 THEN <<>>
    ELSE <<DigitSeq[((rem * 10) \div den) + 1]>> \o FractionDigits((rem * 10) % den, den)

\* String(number) of a finite number that is not negative: the integer part and, for
\* a fraction, the point and the digits after it
DecimalToString(x) ==
    IF x[1] % x[2] = 0 THEN NatToString(x[1] \div x[2])
    ELSE NatToString(x[1] \div x[2]) \o <<".">> \o FractionDigits(x[1] % x[2], x[2])

\* String(header || '') of a header cell (no Date stands in a header row of the model)
HeaderString(header) ==
    IF ~Truthy(header) THEN <<>>
    ELSE IF header.t = "num" /\ IsFinite(header.n) /\ header.n[1] >= 0 THEN DecimalToString(header.n)
    ELSE ToStr(header)

ColumnPrefix == <<"C", "o", "l", "u", "m", "n", "_">>
\* one header of the header row: the trimmed text, or Column_<index + 1> when that is empty
HeaderName(header, index) ==
    IF Trim(HeaderString(header)) /= <<>> THEN Trim(HeaderString(header))
    ELSE ColumnPrefix \o NatToString(index + 1)

\* rawData[0]?.map(...)
ExtractHeaders(row) == [c \in DOMAIN row |-> HeaderName(row[c], c - 1)]

\* isDateSerial: a number between 0 and 3000000 that is not whole
SerialLimit == 3000000
IsDateSerial(num) ==
    /\ Gt(num, N(0))
    /\ Lt(num, N(SerialLimit))
    /\ IsFinite(num) /\ num[1] % num[2] /= 0

\* the lengths of the months of 1900 as the date system of the sheet counts them (it
\* gives February 29 days)
MonthLengths == <<31, 29, 31, 30, 31, 30, 31, 31, 30, 31, 30, 31>>

\* the month and the day of the day-th day of 1900, looked for from month m on
RECURSIVE MonthDay(_, _)
MonthDay(day, m) ==
    IF m = 12 \/ day <= MonthLengths[m] THEN [m |-> m, d |-> day]
    ELSE MonthDay(day - MonthLengths[m], m + 1)

\* XLSX.SSF.parse_date_code of a serial of the year 1900 (the serials of the model lie
\* below 367): the whole days count from 1900-01-01 as day 1
ParseDateCode(value) ==
    [y |-> 1900, m |-> MonthDay(value[1] \div value[2], 1).m,
                 d |-> MonthDay(value[1] \div value[2], 1).d]

\* String(k).padStart(2, '0')
PadStart2(k) == IF k < 10 THEN <<"0">> \o NatToString(k) ELSE NatToString(k)

\* `${date.y}-${pad(date.m)}-${pad(date.d)}`
DateString(date) ==
    NatToString(date.y) \o <<"-">> \o PadStart2(date.m) \o <<"-">> \o PadStart2(date.d)

\* processCellValue: nothing becomes '', a Date its day, a number that isDateSerial
\* accepts the date string of that serial, another number itself, a string its trim
ProcessCellValue(value) ==
    IF value.t = "undef" THEN EmptyCell
    ELSE IF value.t = "date" THEN StrV(value.s)
    ELSE IF value.t = "num" THEN
        (IF IsDateSerial(value.n) THEN StrV(DateString(ParseDateCode(value.n))) ELSE value)
    ELSE StrV(Trim(value.s))

\* the ParseOptions of a call; an absent sheetName is the empty string, an absent
\* sheetIndex is undefined, an absent headerRow or maxRows is 0
ParseOptions(sheetName, sheetIndex, headerRow, maxRows, skipEmptyRows, skipEmptyColumns) ==
    [kind |-> "options", sheetName |-> sheetName, sheetIndex |-> sheetIndex,
     headerRow |-> headerRow, maxRows |-> maxRows,
     skipEmptyRows |-> skipEmptyRows, skipEmptyColumns |-> skipEmptyColumns]

\* a sheet of a workbook: its name and its cells, row by row over the range of the
\* sheet (a sheet without a range has no rows); an empty cell holds ''
Sheet(name, data) == [name |-> name, data |-> data]

ParseFailure(error) == [kind |-> "parse", success |-> FALSE, error |-> error, data |-> NoResult]
ParseSuccess(data) == [kind |-> "parse", success |-> TRUE, error |-> "", data |-> data]

RowIndexKey == <<"_", "_", "r", "o", "w", "I", "n", "d", "e", "x">>

\* the row of the sheet has no cell that holds something
IsBlankRow(row) == \A c \in DOMAIN row : row[c] = EmptyCell
IsNotBlankRow(row) == ~IsBlankRow(row)

\* XLSX.utils.sheet_to_json(worksheet, {header: 1, range: headerRow, defval: '',
\* blankrows}): the rows from the header row on, without the blank ones when
\* blankrows is false
SheetToJson(worksheet, headerRow, blankrows) ==
    IF blankrows THEN SubSeq(worksheet.data, headerRow + 1, Len(worksheet.data))
    ELSE SelectSeq(SubSeq(worksheet.data, headerRow + 1, Len(worksheet.data)), IsNotBlankRow)

\* the range of the worksheet, '!ref' || 'A1'
TotalRows(worksheet) == IF worksheet.data = <<>> THEN 1 ELSE Len(worksheet.data)
TotalColumns(worksheet) == IF worksheet.data = <<>> THEN 1 ELSE Len(worksheet.data[1])

\* the warnings of parseWorkbook, by what they report
SheetsWarning(count, sheetName) == [warning |-> "sheets", n |-> count, name |-> sheetName]
LimitWarning(maxRows, skipped) == [warning |-> "limited", n |-> maxRows, skipped |-> skipped]
ColumnsWarning(removed) == [warning |-> "columns", n |-> removed]

\* the warnings pushed before the rows are read
EarlyWarnings(wb, worksheet, maxRows, dataRows) ==
    (IF Len(wb) > 1 THEN <<SheetsWarning(Len(wb), worksheet.name)>> ELSE <<>>)
    \o (IF maxRows < Len(dataRows)
        THEN <<LimitWarning(maxRows, Len(dataRows) - maxRows)>> ELSE <<>>)

\* the column whose value the row object keeps under the header: the last one of
\* that name
LastColumn(hdrs, key) ==
    CHOOSE c \in DOMAIN hdrs : hdrs[c] = key /\ \A d \in DOMAIN hdrs : hdrs[d] = key => d <= c

\* the object of one row: under each header the processed cell of its column, then
\* __rowIndex
RowObject(hdrs, row, index, headerRow) ==
    [key \in Range(hdrs) \cup {RowIndexKey} |->
        IF key = RowIndexKey THEN NumV(N(index + headerRow + 1))
        ELSE ProcessCellValue(row[LastColumn(hdrs, key)])]

RowObjects(hdrs, limitedRows, headerRow) ==
    [k \in DOMAIN limitedRows |-> RowObject(hdrs, limitedRows[k], k - 1, headerRow)]

\* the row object holds more than its __rowIndex
HasValues(row) == Cardinality({key \in DOMAIN row : row[key] /= EmptyCell}) > 1

\* the filter of the row objects
FilterRows(rows, skipEmptyRows) == IF skipEmptyRows THEN SelectSeq(rows, HasValues) ELSE rows

\* dataRows.slice(0, maxRows)
SliceRows(dataRows, maxRows) ==
    SubSeq(dataRows, 1, IF maxRows < Len(dataRows) THEN maxRows ELSE Len(dataRows))

\* the headers under which some row holds something
NonEmptyColumns(hdrs, rows) ==
    SelectSeq(hdrs, LAMBDA header : \E k \in DOMAIN rows : rows[k][header] /= EmptyCell)

\* the row without the keys of the removed columns
KeepColumns(row, nonEmptyColumns) ==
    [key \in {x \in DOMAIN row : x \in Range(nonEmptyColumns) \/ x = RowIndexKey} |-> row[key]]

FileName == <<"m", "a", "r", "k", "s", ".", "x", "l", "s", "x">>
FileType == <<"x", "l", "s", "x">>

ParsedExcelData(hdrs, rows, worksheet, warnings) ==
    [headers |-> hdrs, rows |-> rows,
     metadata |-> [fileName |-> FileName, sheetName |-> worksheet.name,
                   totalRows |-> TotalRows(worksheet),
                   totalColumns |-> TotalColumns(worksheet), fileType |-> FileType],
     warnings |-> warnings]

\* the end of parseWorkbook: the empty columns are removed when asked
RemoveEmptyColumns(hdrs, rows, nonEmptyColumns, worksheet, warnings, skipEmptyColumns) ==
    IF skipEmptyColumns /\ Len(nonEmptyColumns) /= Len(hdrs)
    THEN ParseSuccess(ParsedExcelData(nonEmptyColumns,
                                 [k \in DOMAIN rows |-> KeepColumns(rows[k], nonEmptyColumns)],
                                 worksheet,
                                 Append(warnings, ColumnsWarning(Len(hdrs) - Len(nonEmptyColumns)))))
    ELSE ParseSuccess(ParsedExcelData(hdrs, rows, worksheet, warnings))

\* the rows become objects and are filtered
ConvertRows(hdrs, rows, worksheet, warnings, opts) ==
    RemoveEmptyColumns(hdrs, rows, NonEmptyColumns(hdrs, rows), worksheet, warnings,
                       opts.skipEmptyColumns)

\* the data rows are limited to maxRows
ExtractRows(wb, worksheet, opts, hdrs, dataRows, maxRows) ==
    ConvertRows(hdrs,
                FilterRows(RowObjects(hdrs, SliceRows(dataRows, maxRows), opts.headerRow),
                           opts.skipEmptyRows),
                worksheet, EarlyWarnings(wb, worksheet, maxRows, dataRows), opts)

\* the headers are taken from the first row
ParseRaw(wb, worksheet, opts, rawData) ==
    IF Len(rawData) = 0 THEN ParseFailure("No data found in the sheet")
    ELSE IF Len(ExtractHeaders(rawData[1])) = 0 THEN ParseFailure("No headers found in the sheet")
    ELSE ExtractRows(wb, worksheet, opts, ExtractHeaders(rawData[1]), Tail(rawData),
                     IF opts.maxRows = 0 THEN Len(rawData) - 1 ELSE opts.maxRows)

ParseSheet(wb, worksheet, opts) ==
    ParseRaw(wb, worksheet, opts, SheetToJson(worksheet, opts.headerRow, ~opts.skipEmptyRows))

\* the sheet of that name
SheetByName(wb, name) == wb[CHOOSE k \in DOMAIN wb : wb[k].name = name]

\* parseWorkbook: the sheet is chosen by name, by index or as the first one; a
\* workbook without a sheet at the chosen place makes the read of the sheet throw,
\* which the catch reports
ParseWorkbookOf(wb, opts) ==
    IF opts.sheetName /= <<>> THEN
        (IF \A k \in DOMAIN wb : wb[k].name /= opts.sheetName THEN ParseFailure("Sheet not found")
         ELSE ParseSheet(wb, SheetByName(wb, opts.sheetName), opts))
    ELSE IF opts.sheetIndex /= Undef THEN
        (IF Ge(opts.sheetIndex.n, N(Len(wb))) THEN ParseFailure("Sheet index is out of range")
         ELSE ParseSheet(wb, wb[(opts.sheetIndex.n[1] \div opts.sheetIndex.n[2]) + 1], opts))
    ELSE IF wb = <<>> THEN ParseFailure("Failed to parse workbook")
    ELSE ParseSheet(wb, wb[1], opts)

(***************************************************************************)
(* ValidationService.validateStructure                                     *)
(***************************************************************************)
\* s.includes(sub)
Includes(s, sub) ==
    \E i \in 1..(Len(s) - Len(sub) + 1) : SubSeq(s, i, i + Len(sub) - 1) = sub

\* /full.*name/ finds a match in s
FullThenName(s) ==
    \E i \in 1..Len(s) : Includes(SubSeq(s, 1, i), <<"f", "u", "l", "l">>) /\ Includes(SubSeq(s, i + 1, Len(s)), <<"n", "a", "m", "e">>)

\* hasLikelyStudentNameColumn
HasLikelyStudentNameColumn(hdrs) ==
    \E k \in DOMAIN hdrs :
        \/ Includes(ToLowerCase(hdrs[k]), <<"n", "a", "m", "e">>)
        \/ Includes(ToLowerCase(hdrs[k]), <<"s", "t", "u", "d", "e", "n", "t">>)
        \/ FullThenName(ToLowerCase(hdrs[k]))

\* hasLikelyRollNumberColumn
HasLikelyRollNumberColumn(hdrs) ==
    \E k \in DOMAIN hdrs :
        \E word \in {<<"r", "o", "l", "l">>, <<"i", "d">>, <<"n", "u", "m", "b", "e", "r">>, <<"n", "o">>} : Includes(ToLowerCase(hdrs[k]), word)

\* findInconsistentRows: the indices of the rows that lack more than half of the headers
FindInconsistentRows(rows, hdrs) ==
    SelectSeq([k \in DOMAIN rows |-> k - 1],
              LAMBDA index :
                  Len(SelectSeq(hdrs, LAMBDA header : header \notin DOMAIN rows[index + 1])) * 2
                      > Len(hdrs))

\* the headers that stand more than once in the list, each once, in the order of
\* their first place
DuplicateHeaders(hdrs) ==
    SelectSeq([k \in DOMAIN hdrs |->
                  IF (\E j \in DOMAIN hdrs : j /= k /\ hdrs[j] = hdrs[k])
                     /\ (\A j \in 1..(k - 1) : hdrs[j] /= hdrs[k])
                  THEN hdrs[k] ELSE <<>>],
              LAMBDA header : header /= <<>>)

EmptyHeaders(hdrs) == SelectSeq(hdrs, LAMBDA h : h = <<>> \/ Trim(h) = <<>>)

FewColumns == 3
ManyColumns == 50
LargeDataset == 1000
FewRows == 5

StructureErrors(data) ==
    (IF Len(data.headers) = 0 THEN <<"No headers found in the file">> ELSE <<>>)
    \o (IF Len(data.rows) = 0 THEN <<"No data rows found in the file">> ELSE <<>>)
    \o (IF Len(DuplicateHeaders(data.headers)) > 0
        THEN <<"Duplicate column headers found">> ELSE <<>>)

StructureWarnings(data) ==
    (IF Len(data.headers) < FewColumns THEN <<"Very few columns detected">> ELSE <<>>)
    \o (IF Len(data.headers) > ManyColumns THEN <<"Large number of columns detected">> ELSE <<>>)
    \o (IF Len(data.rows) > LargeDataset THEN <<"Large dataset detected">> ELSE <<>>)
    \o (IF Len(EmptyHeaders(data.headers)) > 0 THEN <<"empty column headers found">> ELSE <<>>)
    \o (IF Len(FindInconsistentRows(data.rows, data.headers)) > 0
        THEN <<"rows have inconsistent data structure">> ELSE <<>>)

StructureRecommendations(data) ==
    (IF Len(EmptyHeaders(data.headers)) > 0
     THEN <<"Consider removing empty columns or providing proper headers">> ELSE <<>>)
    \o (IF Len(DuplicateHeaders(data.headers)) > 0
        THEN <<"Ensure all column headers are unique">> ELSE <<>>)
    \o (IF Len(data.rows) < FewRows
        THEN <<"Consider adding more sample data for better analysis">> ELSE <<>>)
    \o (IF ~HasLikelyStudentNameColumn(data.headers)
        THEN <<"Ensure file contains a student name column">> ELSE <<>>)
    \o (IF ~HasLikelyRollNumberColumn(data.headers)
        THEN <<"Ensure file contains a roll number column">> ELSE <<>>)

\* validateStructure: the messages are kept by their fixed text, and the headers that
\* the duplicate message names as duplicateHeaders
ValidateStructureOf(data) ==
    [kind |-> "structure",
     isValid |-> StructureErrors(data) = <<>>,
     errors |-> StructureErrors(data),
     warnings |-> StructureWarnings(data),
     recommendations |-> StructureRecommendations(data),
     duplicateHeaders |-> DuplicateHeaders(data.headers)]

(***************************************************************************)
(* Reading a workbook                                                      *)
(***************************************************************************)
MaxColumns == 2

NameHeader == <<"N", "a", "m", "e">>
Column2Header == <<"C", "o", "l", "u", "m", "n", "_", "2">>
FirstSheet == <<"S", "h", "e", "e", "t", "1">>
SecondSheet == <<"S", "h", "e", "e", "t", "2">>
OtherSheet == <<"M", "a", "r", "k", "s">>

\* the cells a header row is made of
HeaderCells == {StrV(NameHeader), StrV(<<" ", "N", "a", "m", "e", " ">>), EmptyCell, StrV(Column2Header)}

HeaderRows == UNION {[1..w -> HeaderCells] : w \in 1..MaxColumns}

\* the data rows of the model, for a sheet of w columns
MarksRow(w) == [c \in 1..w |-> IF c = 1 THEN StrV(<<" ", "A", "l", "i", "c", "e", " ">>) ELSE NumV(Rat(171, 2))]
WholeRow(w) == [c \in 1..w |-> IF c = 1 THEN NumV(N(85)) ELSE EmptyCell]
BlankRow(w) == [c \in 1..w |-> EmptyCell]
DateRow(w) == [c \in 1..w |-> IF c = 1 THEN DateV(<<"2", "0", "2", "4", "-", "0", "3", "-", "2", "5">>) ELSE EmptyCell]

DataRowLists(w) ==
    {<<>>, <<MarksRow(w)>>, <<BlankRow(w)>>, <<BlankRow(w), MarksRow(w)>>,
     <<WholeRow(w), DateRow(w)>>, <<MarksRow(w), WholeRow(w), BlankRow(w)>>}

\* the cells of a sheet of w columns: a header row, then data rows
Grids(w) == {<<hdr>> \o rows : hdr \in [1..w -> HeaderCells], rows \in DataRowLists(w)}

\* no sheet, one sheet, or that sheet and a second one without a range
Workbooks ==
    {<<>>}
    \cup UNION {{<<Sheet(FirstSheet, g)>> : g \in Grids(w)} : w \in 1..MaxColumns}
    \cup UNION {{<<Sheet(FirstSheet, g), Sheet(SecondSheet, <<>>)>> : g \in Grids(w)} :
                   w \in 1..MaxColumns}

DefaultOptions == ParseOptions(<<>>, Undef, 0, 0, FALSE, FALSE)

OptionSets ==
    {DefaultOptions,
     ParseOptions(FirstSheet, Undef, 0, 0, FALSE, FALSE),
     ParseOptions(OtherSheet, Undef, 0, 0, FALSE, FALSE),
     ParseOptions(<<>>, NumV(N(0)), 0, 0, FALSE, FALSE),
     ParseOptions(<<>>, NumV(N(1)), 0, 0, FALSE, FALSE),
     ParseOptions(<<>>, Undef, 1, 0, FALSE, FALSE),
     ParseOptions(<<>>, Undef, 0, 1, FALSE, FALSE),
     ParseOptions(<<>>, Undef, 0, 0, TRUE, FALSE),
     ParseOptions(<<>>, Undef, 0, 0, FALSE, TRUE),
     ParseOptions(<<>>, Undef, 0, 0, TRUE, TRUE)}

\* parseWorkbook(workbook, fileName, fileType, options)
ParseWorkbook ==
    /\ parseResult = NoResult
    /\ parseResult' = ParseWorkbookOf(workbook, options)
    /\ UNCHANGED <<workbook, options, structure, voVars, resVars, valVars, exVars, mapVars, calcVars, applyVars, portVars>>

\* ValidationService.validateStructure(data), on the data of a successful parse
ValidateStructure ==
    /\ parseResult /= NoResult
    /\ parseResult.success
    /\ structure = NoResult
    /\ structure' = ValidateStructureOf(parseResult.data)
    /\ UNCHANGED <<workbook, options, parseResult, voVars, resVars, valVars, exVars, mapVars, calcVars, applyVars, portVars>>

InitParse ==
    /\ IdleVO /\ IdleRes /\ IdleVal /\ IdleEx /\ IdleMap /\ IdleCalc /\ IdleApply /\ IdlePorts
    /\ workbook \in Workbooks
    /\ options \in OptionSets
    /\ parseResult = NoResult
    /\ structure = NoResult

NextParse == ParseWorkbook \/ ValidateStructure

\* a workbook is parseResult, and the structure of what a successful parse returned is validated
SpecParse == InitParse /\ [][NextParse]_vars

\* the names of the list differ pairwise
PairwiseDistinct(names) ==
    \A i, j \in DOMAIN names : i /= j => names[i] /= names[j]

\* C12: every TabularData that a successful parse returns has pairwise distinct
\* header names; a header row with a repeated name makes the parse fail.
C12_ParsedHeadersDistinct ==
    (parseResult /= NoResult /\ parseResult.success) => PairwiseDistinct(parseResult.data.headers)

(***************************************************************************)
(* Calculations on a Result                                                *)
(***************************************************************************)
\* result.getStudentResults(), of the Result that fromRawData built
PercentagesOf(entries) == [i \in DOMAIN entries |-> entries[i].pct]

\* ResultCalculator.calculateClassAveragePercentage(result): the Percentage, or
\* NoObj when its constructor throws
CalculateClassAveragePercentageOf(entries) ==
    IF Len(entries) = 0 THEN NewPercentage(N(0))
    ELSE NewPercentage(Div(SumSeq(PercentagesOf(entries)), N(Len(entries))))

PassingPercentage == 40

\* Math.round(x * 100) / 100
RoundToHundredths(x) == Div(Round(Times(x, N(100))), N(100))

\* the students that generateReportSummary counts as passed
PassCountAbove(entries) ==
    Len(SelectSeq(entries, LAMBDA sr : Gt(sr.pct, N(PassingPercentage))))

PassCount(entries) ==
    Len(SelectSeq(entries, LAMBDA sr : Ge(sr.pct, N(PassingPercentage))))

\* the class average of generateReportSummary, before it is rounded
SummaryAverage(entries) ==
    IF Len(entries) > 0 THEN Div(SumSeq(PercentagesOf(entries)), N(Len(entries))) ELSE N(0)

\* GenerateReportUseCase.generateReportSummary(result)
GenerateReportSummaryOf(entries) ==
    [totalStudents |-> Len(entries),
     classAverage |-> RoundToHundredths(SummaryAverage(entries)),
     passRate |-> Div(Round(Times(Times(Div(N(PassCount(entries)),
                                            N(IF Len(entries) > 1 THEN Len(entries) ELSE 1)),
                                        N(100)), N(100))), N(100))]

\* AnalyticsService.calculatePassFailRates(result, passingPercentage): the students
\* whose percentage meets the threshold are counted as passed, the others as failed,
\* and both counts are given as percentages of the total (0 for no student)
PassedCount(entries, passingPercentage) ==
    Len(SelectSeq(entries, LAMBDA sr : Ge(sr.pct, passingPercentage)))

RateOf(count, total) ==
    IF total = 0 THEN NewPercentage(N(0))
    ELSE NewPercentage(Times(Div(N(count), N(total)), N(100)))

CalculatePassFailRatesOf(entries, passingPercentage) ==
    [totalStudents |-> Len(entries),
     passed |-> PassedCount(entries, passingPercentage),
     failed |-> Len(entries) - PassedCount(entries, passingPercentage),
     passPercentage |-> RateOf(PassedCount(entries, passingPercentage), Len(entries)),
     failPercentage |-> RateOf(Len(entries) - PassedCount(entries, passingPercentage),
                               Len(entries))]

\* the share of the population ranked below the student
CalculatePercentileBelow(student, allStudents) ==
    IF student.rank = NoRank \/ Len(allStudents) = 0 THEN N(0)
    ELSE Times(Div(N(Len(allStudents) - student.rank), N(Len(allStudents))), N(100))

\* RankingService.calculatePercentile(student, allStudents): (N - rank + 1) / N * 100,
\* and 0 for a student without a rank or an empty population
CalculatePercentileOf(student, allStudents) ==
    IF student.rank = NoRank \/ Len(allStudents) = 0 THEN N(0)
    ELSE Times(Div(N(Len(allStudents) - student.rank + 1), N(Len(allStudents))), N(100))

EasyPassRate == 90
EasyAverage == 75
ModeratePassRate == 75
ModerateAverage == 60
DifficultPassRate == 50
DifficultAverage == 45

\* a classification by bands of the average
DetermineDifficultyBanded(average, passRate) ==
    IF Ge(passRate, N(EasyPassRate)) /\ Ge(average, N(EasyAverage)) THEN "Easy"
    ELSE IF Ge(passRate, N(ModeratePassRate)) /\ Ge(average, N(ModerateAverage))
            /\ Lt(average, N(EasyAverage)) THEN "Moderate"
    ELSE IF Ge(passRate, N(DifficultPassRate)) /\ Ge(average, N(DifficultAverage))
            /\ Lt(average, N(ModerateAverage)) THEN "Difficult"
    ELSE "Very Difficult"

\* AnalyzeResultUseCase.determineDifficulty(average, passRate)
DetermineDifficultyOf(average, passRate) ==
    IF Ge(passRate, N(EasyPassRate)) /\ Ge(average, N(EasyAverage)) THEN "Easy"
    ELSE IF Ge(passRate, N(ModeratePassRate)) /\ Ge(average, N(ModerateAverage)) THEN "Moderate"
    ELSE IF Ge(passRate, N(DifficultPassRate)) /\ Ge(average, N(DifficultAverage)) THEN "Difficult"
    ELSE "Very Difficult"

\* a calculation run on the Result: its name, its arguments, its value
Out(op, args, value) == [op |-> op, args |-> args, value |-> value]

MaxClass == 5

Mathematics == <<"M", "a", "t", "h", "e", "m", "a", "t", "i", "c", "s">>
Science == <<"S", "c", "i", "e", "n", "c", "e">>
English == <<"E", "n", "g", "l", "i", "s", "h">>
ScenarioSubjects == <<Mathematics, Science, English>>

\* one element of studentData: the name, the roll number and the marks object, as
\* its entries
StudentData(name, rollNumber, marks) ==
    [name |-> StrV(name), rollNumber |-> StrV(rollNumber), marks |-> marks]

ThreeMarks(m, s, e) ==
    <<<<Mathematics, NumV(N(m))>>, <<Science, NumV(N(s))>>, <<English, NumV(N(e))>>>>

Alice == StudentData(<<"A", "l", "i", "c", "e">>, <<"0", "0", "1">>, ThreeMarks(95, 92, 88))
Diana == StudentData(<<"D", "i", "a", "n", "a">>, <<"0", "0", "2">>, ThreeMarks(88, 90, 85))
Bob == StudentData(<<"B", "o", "b">>, <<"0", "0", "3">>, ThreeMarks(78, 82, 76))
Charlie == StudentData(<<"C", "h", "a", "r", "l", "i", "e">>, <<"0", "0", "4">>, ThreeMarks(65, 68, 72))
Struggling == StudentData(<<"S", "t", "r", "u", "g", "g", "l", "i", "n", "g", " ", "S", "t", "u", "d", "e", "n", "t">>, <<"0", "0", "5">>, ThreeMarks(35, 38, 42))
Borderline == StudentData(<<"B", "o", "r", "d", "e", "r", "l", "i", "n", "e", " ", "S", "t", "u", "d", "e", "n", "t">>, <<"0", "0", "6">>, ThreeMarks(40, 40, 40))
Failing == StudentData(<<"F", "a", "i", "l", "e", "d", " ", "S", "t", "u", "d", "e", "n", "t">>, <<"0", "0", "8">>, ThreeMarks(25, 28, 32))
\* a student whose marks object has no entry for English
Partial ==
    StudentData(<<"P", "a", "r", "t", "i", "a", "l", " ", "S", "t", "u", "d", "e", "n", "t">>, <<"0", "0", "7">>,
                <<<<Mathematics, NumV(N(90))>>, <<Science, NumV(N(80))>>>>)

StudentDataPool == <<Alice, Diana, Bob, Charlie, Struggling, Failing, Borderline, Partial>>

\* the end-to-end scenario
Scenario == <<Alice, Diana, Bob, Charlie>>

\* the students of the pool at the chosen places, in the order of the pool
PickStudents(places) ==
    SelectSeq([k \in DOMAIN StudentDataPool |->
                  IF k \in places THEN StudentDataPool[k] ELSE NoObj],
              LAMBDA sd : sd /= NoObj)

StudentDataLists ==
    {PickStudents(places) :
        places \in {ps \in SUBSET DOMAIN StudentDataPool : Cardinality(ps) <= MaxClass}}

RawData(studentData) ==
    [id |-> <<"r", "1">>, title |-> <<"T", "e", "r", "m", " ", "1">>, subjects |-> ScenarioSubjects,
     studentData |-> studentData]

Thresholds == {N(PassingPercentage), N(70)}

\* the averages and pass rates determineDifficulty is called with
DifficultyInputs ==
    {N(0), N(44), N(45), N(49), N(50), N(59), N(60), Rat(149, 2), N(75), N(89), N(90), N(100)}

\* Result.fromRawData(data)
CallFromRawData ==
    /\ calcData /= NoResult
    /\ calcResult = NoResult
    /\ calcResult' = FromRawData(calcData)
    /\ UNCHANGED <<calcData, calcOut, voVars, resVars, valVars, exVars, mapVars, parseVars, applyVars, portVars>>

\* fromRawData returned a Result, on which no calculation has been run yet
HasResult == calcResult /= NoResult /\ ~calcResult.threw /\ calcOut = NoResult

\* ResultCalculator.calculateClassAveragePercentage(result)
CalculateClassAveragePercentage ==
    /\ HasResult
    /\ calcOut' = Out("calculateClassAveragePercentage", <<>>,
                      CalculateClassAveragePercentageOf(calcResult.entries))
    /\ UNCHANGED <<calcData, calcResult, voVars, resVars, valVars, exVars, mapVars, parseVars, applyVars, portVars>>

\* GenerateReportUseCase.generateReportSummary(result)
GenerateReportSummary ==
    /\ HasResult
    /\ calcOut' = Out("generateReportSummary", <<>>, GenerateReportSummaryOf(calcResult.entries))
    /\ UNCHANGED <<calcData, calcResult, voVars, resVars, valVars, exVars, mapVars, parseVars, applyVars, portVars>>

\* AnalyticsService.calculatePassFailRates(result, passingPercentage)
CalculatePassFailRates ==
    /\ HasResult
    /\ \E passingPercentage \in Thresholds :
          calcOut' = Out("calculatePassFailRates", [passingPercentage |-> passingPercentage],
                         CalculatePassFailRatesOf(calcResult.entries, passingPercentage))
    /\ UNCHANGED <<calcData, calcResult, voVars, resVars, valVars, exVars, mapVars, parseVars, applyVars, portVars>>

\* RankingService.calculatePercentile(student, allStudents), of a student of the
\* Result as it is ranked or with its rank taken away, in the ranked students or in
\* an empty list
CalculatePercentile ==
    /\ HasResult
    /\ \E i \in DOMAIN calcResult.entries, ranked \in BOOLEAN,
          allStudents \in {calcResult.entries, <<>>} :
          \E student \in {IF ranked THEN calcResult.entries[i]
                          ELSE [calcResult.entries[i] EXCEPT !.rank = NoRank]} :
              calcOut' = Out("calculatePercentile",
                             [student |-> student, allStudents |-> allStudents],
                             CalculatePercentileOf(student, allStudents))
    /\ UNCHANGED <<calcData, calcResult, voVars, resVars, valVars, exVars, mapVars, parseVars, applyVars, portVars>>

\* AnalyzeResultUseCase.determineDifficulty(average, passRate)
DetermineDifficulty ==
    /\ HasResult
    /\ \E average \in DifficultyInputs, passRate \in DifficultyInputs :
          calcOut' = Out("determineDifficulty", [average |-> average, passRate |-> passRate],
                         DetermineDifficultyOf(average, passRate))
    /\ UNCHANGED <<calcData, calcResult, voVars, resVars, valVars, exVars, mapVars, parseVars, applyVars, portVars>>

InitCalc ==
    /\ IdleVO /\ IdleRes /\ IdleVal /\ IdleEx /\ IdleMap /\ IdleParse /\ IdleApply /\ IdlePorts
    /\ calcData \in {RawData(studentData) : studentData \in StudentDataLists}
    /\ calcResult = NoResult
    /\ calcOut = NoResult

NextCalc ==
    \/ CallFromRawData
    \/ CalculateClassAveragePercentage
    \/ GenerateReportSummary
    \/ CalculatePassFailRates
    \/ CalculatePercentile
    \/ DetermineDifficulty

\* a Result is built from raw data, then a calculation is run on it
SpecCalc == InitCalc /\ [][NextCalc]_vars

\* |x - y| <= 1/2
Approximately(x, y) ==
    /\ Le(Plus(x, Times(N(-1), y)), Rat(1, 2))
    /\ Le(Plus(y, Times(N(-1), x)), Rat(1, 2))

\* C13: in the end-to-end scenario (Alice [95,92,88], Diana [88,90,85], Bob [78,82,76],
\* Charlie [65,68,72], three subjects of 100) the class average percentage computed
\* from the constructed Result is approximately 84.75.
C13_ScenarioClassAverage ==
    (/\ calcData /= NoResult
     /\ calcData.studentData = Scenario
     /\ calcOut /= NoResult
     /\ calcOut.op = "calculateClassAveragePercentage")
    => (calcOut.value /= NoObj /\ Approximately(calcOut.value.value, Rat(339, 4)))

\* C14: calculatePercentile returns (N - r + 1) / N * 100 for a student of rank r in a
\* ranked population of N >= 1 students (100 for rank 1, 25 for rank 4 of 4), and 0
\* when the rank is undefined or the population is empty.
C14_PercentileFormula ==
    (calcOut /= NoResult /\ calcOut.op = "calculatePercentile") =>
        \E n \in {Len(calcOut.args.allStudents)}, r \in {calcOut.args.student.rank} :
            /\ (r = NoRank \/ n = 0) => calcOut.value = N(0)
            /\ (r /= NoRank /\ n >= 1) => calcOut.value = Rat((n - r + 1) * 100, n)
            /\ (r = 1 /\ n >= 1) => calcOut.value = N(100)
            /\ (r = 4 /\ n = 4) => calcOut.value = N(25)

\* the student of rank 4 of 4 ranked students has percentile 25
C14_Witness ==
    /\ calcOut /= NoResult
    /\ calcOut.op = "calculatePercentile"
    /\ Len(calcOut.args.allStudents) = 4
    /\ calcOut.args.student.rank = 4
    /\ calcOut.value = N(25)

\* the entries whose percentage is not below the threshold
MeetThreshold(entries, threshold) ==
    {i \in DOMAIN entries : ~Lt(entries[i].pct, threshold)}

\* C15: calculatePassFailRates returns passed + failed = totalStudents, passed being
\* the number of students whose percentage is at least the threshold (40 by default),
\* passPercentage = passed / total * 100, and 0 for every count and percentage of an
\* empty Result; generateReportSummary counts the same students as passed at 40.
C15_PassFailRates ==
    /\ (calcOut /= NoResult /\ calcOut.op = "calculatePassFailRates") =>
          /\ calcOut.value.passed + calcOut.value.failed = calcOut.value.totalStudents
          /\ calcOut.value.totalStudents = Len(calcResult.entries)
          /\ calcOut.value.passed
                = Cardinality(MeetThreshold(calcResult.entries, calcOut.args.passingPercentage))
          /\ calcOut.value.totalStudents > 0 =>
                calcOut.value.passPercentage.value
                    = Rat(calcOut.value.passed * 100, calcOut.value.totalStudents)
          /\ calcOut.value.totalStudents = 0 =>
                /\ calcOut.value.passed = 0
                /\ calcOut.value.failed = 0
                /\ calcOut.value.passPercentage.value = N(0)
                /\ calcOut.value.failPercentage.value = N(0)
    /\ (calcOut /= NoResult /\ calcOut.op = "generateReportSummary") =>
          /\ calcOut.value.totalStudents = Len(calcResult.entries)
          /\ calcOut.value.passRate
                = RoundToHundredths(
                      CalculatePassFailRatesOf(calcResult.entries,
                                               N(PassingPercentage)).passPercentage.value)

\* five students, three of them passed and two failed at the threshold 40: 60 percent
C15_Witness ==
    /\ calcOut /= NoResult
    /\ calcOut.op = "calculatePassFailRates"
    /\ calcOut.args.passingPercentage = N(PassingPercentage)
    /\ calcOut.value.totalStudents = 5
    /\ calcOut.value.passed = 3
    /\ calcOut.value.failed = 2
    /\ calcOut.value.passPercentage.value = N(60)

\* the classifications from the hardest to the easiest
Ease(difficulty) ==
    CASE difficulty = "Very Difficult" -> 0
      [] difficulty = "Difficult" -> 1
      [] difficulty = "Moderate" -> 2
      [] difficulty = "Easy" -> 3

\* C16: the classification of a subject is monotonic: for averages a <= a2 and pass
\* rates p <= p2 the classification of (a2, p2) is the same as that of (a, p) or an
\* easier one.
C16_DifficultyMonotonic ==
    (calcOut /= NoResult /\ calcOut.op = "determineDifficulty") =>
        \A a2 \in DifficultyInputs, p2 \in DifficultyInputs :
            (Le(calcOut.args.average, a2) /\ Le(calcOut.args.passRate, p2))
                => Ease(DetermineDifficultyOf(a2, p2)) >= Ease(calcOut.value)

\* a subject classified Moderate that a higher average and pass rate make Easy
C16_Witness ==
    /\ calcOut /= NoResult
    /\ calcOut.op = "determineDifficulty"
    /\ calcOut.value = "Moderate"
    /\ \E a2 \in DifficultyInputs, p2 \in DifficultyInputs :
          /\ Le(calcOut.args.average, a2)
          /\ Le(calcOut.args.passRate, p2)
          /\ DetermineDifficultyOf(a2, p2) = "Easy"

\* the marks object of the student has no entry for the subject
HasNoEntry(sd, subject) == \A j \in DOMAIN sd.marks : sd.marks[j][1] /= subject

\* C18: Result.fromRawData raises a construction failure whenever the raw marks of some
\* student have no entry for one of the listed subjects.
C18_MissingMarksThrow ==
    (/\ calcResult /= NoResult
     /\ \E i \in DOMAIN calcData.studentData, k \in DOMAIN calcData.subjects :
           HasNoEntry(calcData.studentData[i], calcData.subjects[k]))
    => calcResult.threw

(***************************************************************************)
(* Further properties of the reader                                        *)
(***************************************************************************)
\* C23: a successful parse always has at least one row; a sheet with a header row and
\* no data rows makes the parse fail and return no data.
C23_ParsedHasRows ==
    (parseResult /= NoResult /\ parseResult.success) => Len(parseResult.data.rows) >= 1

\* the cell holds a number from 0 to 100
IsMarkCell(cell) ==
    cell.t = "num" /\ IsFinite(cell.n) /\ Ge(cell.n, N(MinMarks)) /\ Le(cell.n, N(MaxMarks))

\* C30: the reader returns every numeric cell that holds a mark (a number from 0 to
\* 100, whole or fractional) unchanged as a number: with the default options, under
\* each header the row object of a data row holds the number of that row's cell.
C30_MarkCellsUnchanged ==
    (/\ parseResult /= NoResult
     /\ parseResult.success
     /\ options = DefaultOptions
     /\ Len(workbook) = 1)
    => \A k \in DOMAIN parseResult.data.rows : \A c \in DOMAIN workbook[1].data[k + 1] :
          (/\ IsMarkCell(workbook[1].data[k + 1][c])
           /\ LastColumn(parseResult.data.headers, parseResult.data.headers[c]) = c)
          => parseResult.data.rows[k][parseResult.data.headers[c]] = workbook[1].data[k + 1][c]

(***************************************************************************)
(* Further properties of validateData                                      *)
(***************************************************************************)
\* the marks of the i-th row that marks_consistency averages
PositiveMarks(i) ==
    FilterPositive([j \in DOMAIN Transformed[i].marks |-> Transformed[i].marks[j][2]])

\* the average of the positive marks of the i-th row is below 10 or above 95
ExtremeAverage(i) ==
    /\ PositiveMarks(i) /= <<>>
    /\ \/ Lt(Div(SumSeq(PositiveMarks(i)), N(Len(PositiveMarks(i)))), N(LowAverage))
       \/ Gt(Div(SumSeq(PositiveMarks(i)), N(Len(PositiveMarks(i)))), N(HighAverage))

\* C21: a record whose marks average (over its positive marks) is below 10 or above 95
\* has a marks_consistency entry among the warnings of its row result, and that rule
\* puts no entry among its errors.
C21_ExtremeAverageWarned ==
    vres /= NoResult =>
        \A i \in DOMAIN vres.rowResults :
            ExtremeAverage(i) =>
                /\ \E w \in DOMAIN vres.rowResults[i].warnings :
                      vres.rowResults[i].warnings[w].rule = "marks_consistency"
                /\ \A e \in DOMAIN vres.rowResults[i].errors :
                      vres.rowResults[i].errors[e].rule /= "marks_consistency"

\* a score that is a number between 0 and 100
IsPercent(x) == IsFinite(x) /\ Ge(x, N(0)) /\ Le(x, N(100))

\* the share, in percent, of the row results that pass the test
SharePercent(count, total) == Round(Times(Div(N(count), N(total)), N(100)))

\* C24: for every validated batch, the batch of zero records included, the four
\* data-quality scores are numbers in 0..100; for a batch with records consistency is
\* the share of records without warnings, accuracy the share of records without
\* errors, and overall the mean of the three.
C24_QualityScoresArePercents ==
    vres /= NoResult =>
        /\ IsPercent(vres.dataQualityAnalysis.completenessScore)
        /\ IsPercent(vres.dataQualityAnalysis.consistencyScore)
        /\ IsPercent(vres.dataQualityAnalysis.accuracyScore)
        /\ IsPercent(vres.dataQualityAnalysis.overallScore)
        /\ Len(vres.rowResults) >= 1 =>
              /\ vres.dataQualityAnalysis.consistencyScore
                    = SharePercent(Cardinality({i \in DOMAIN vres.rowResults :
                          vres.rowResults[i].warnings = <<>>}), Len(vres.rowResults))
              /\ vres.dataQualityAnalysis.accuracyScore
                    = SharePercent(Cardinality({i \in DOMAIN vres.rowResults :
                          vres.rowResults[i].errors = <<>>}), Len(vres.rowResults))
              /\ vres.dataQualityAnalysis.overallScore
                    = Round(Div(Plus(Plus(vres.dataQualityAnalysis.completenessScore,
                                          vres.dataQualityAnalysis.consistencyScore),
                                     vres.dataQualityAnalysis.accuracyScore), N(3)))

(***************************************************************************)
(* ColumnMapper.applyMappings                                              *)
(***************************************************************************)
\* what a transformer does with a value: it returns one, or it throws
Returned(value) == [threw |-> FALSE, value |-> value]
TransformerThrew == [threw |-> TRUE, value |-> Undef]

\* getFieldTransformer for the text fields: (v) => String(v || '').trim()
TrimmedString(v) == StrV(IF Truthy(v) THEN Trim(ToStr(v)) ELSE <<>>)

\* getFieldTransformer for the number fields: parseFloat(String(v || '0')), NaN read as 0
NumberOrZero(v) ==
    NumV(IF ~Truthy(v) \/ IsNaN(ParseFloat(ToStr(v))) THEN N(0) ELSE ParseFloat(ToStr(v)))

MarksFloor == 0
MarksCeiling == 100
PassWordMarks == 40

\* Math.max(0, Math.min(100, num))
Clamp(num) ==
    IF Lt(num, N(MarksFloor)) THEN N(MarksFloor)
    ELSE IF Gt(num, N(MarksCeiling)) THEN N(MarksCeiling) ELSE num

\* getMarksTransformer from str = String(value).toLowerCase().trim() on
MarksOfWord(str) ==
    IF str \in {<<"a", "b", "s", "e", "n", "t">>, <<"a", "b">>, <<"a">>} THEN N(0)
    ELSE IF str \in {<<"p", "a", "s", "s">>, <<"p">>} THEN N(PassWordMarks)
    ELSE IF str \in {<<"f", "a", "i", "l">>, <<"f">>} THEN N(0)
    ELSE IF IsNaN(ParseFloat(str)) THEN N(0)
    ELSE Clamp(ParseFloat(str))

\* ColumnMapper.getMarksTransformer
MarksTransformer(value) ==
    IF value = Undef \/ value = StrV(<<>>) THEN NumV(N(0))
    ELSE NumV(MarksOfWord(Trim(ToLowerCase(ToStr(value)))))

\* mapping.transformer ? mapping.transformer(rawValue) : rawValue.  The transformers
\* ColumnMapper hands out return a value for every input; "strict number" is a
\* transformer of the caller, (v) => { if (isNaN(Number(v))) throw ...; return Number(v) }
ApplyTransformer(transformer, rawValue) ==
    IF transformer = "undefined" THEN Returned(rawValue)
    ELSE IF transformer = "trimmed string" THEN Returned(TrimmedString(rawValue))
    ELSE IF transformer = "number or 0" THEN Returned(NumberOrZero(rawValue))
    ELSE IF transformer = "marks" THEN Returned(MarksTransformer(rawValue))
    ELSE IF IsNaN(ToNumber(rawValue)) THEN TransformerThrew
    ELSE Returned(NumV(ToNumber(rawValue)))

\* a row that is null: reading a column of it throws a TypeError.  It stands as the
\* row whose only column is the empty name.
NullRow == [h \in {<<>>} |-> Undef]

\* an entry of warnings or errors: the row it names (index + 1), its text, and the
\* column or the fields it lists
RowEntry(index, text, listed) == [row |-> index, text |-> text, listed |-> listed]

\* transformedRow as the forEach over the mappings starts: { marks: {}, __originalRow: row };
\* originalRow is the position of the row object in rows
NewTransformedRow(index) ==
    [ studentName |-> Undef, rollNumber |-> Undef, class |-> Undef,
      marks |-> <<>>, originalRow |-> index ]

\* transformedRow.marks[subjectName] = value
SetMark(marks, subjectName, value) ==
    IF \E j \in DOMAIN marks : marks[j][1] = subjectName
    THEN [j \in DOMAIN marks |-> IF marks[j][1] = subjectName THEN <<subjectName, value>>
                                 ELSE marks[j]]
    ELSE Append(marks, <<subjectName, value>>)

\* the body of mappings.forEach for one mapping, from what its transformer did
MappingOutcome(acc, mapping, index, processed) ==
    IF processed.threw
    THEN [acc EXCEPT !.warnings =
              Append(@, RowEntry(index, "Failed to transform", <<mapping.excelColumn>>))]
    ELSE IF mapping.dataField = "subject"
    THEN [acc EXCEPT !.row.marks =
                        SetMark(@, mapping.subject,
                                IF Truthy(processed.value) THEN processed.value
                                ELSE NumV(N(0))),
                     !.hasValidData = TRUE]
    ELSE [acc EXCEPT !.row[mapping.dataField] = processed.value,
                     !.hasValidData = @ \/ (mapping.isRequired /\ Truthy(processed.value))]

\* mappings.forEach, from the k-th mapping on
RECURSIVE ApplyEach(_, _, _, _, _)
ApplyEach(ms, k, row, index, acc) ==
    IF k > Len(ms) THEN acc
    ELSE ApplyEach(ms, k + 1, row, index,
            MappingOutcome(acc, ms[k], index,
                           ApplyTransformer(ms[k].transformer, CellOf(row, ms[k].excelColumn))))

\* the required fields, had none been looked for
MissingRequiredNone(transformedRow) == <<>>

\* REQUIRED_FIELDS.filter(field => !transformedRow[field] || transformedRow[field] === '')
MissingRequiredIn(transformedRow) ==
    SelectSeq(REQUIRED_FIELDS, LAMBDA field : ~Truthy(transformedRow[field]))

\* the end of the body of rows.forEach: the row is skipped with a warning, or pushed
RowOutcome(out, index, acc) ==
    IF ~acc.hasValidData
    THEN [out EXCEPT !.warnings =
              @ \o Append(acc.warnings,
                          RowEntry(index, "Skipped due to missing required data", <<>>))]
    ELSE IF MissingRequiredIn(acc.row) /= <<>>
    THEN [out EXCEPT !.warnings =
              @ \o Append(acc.warnings,
                          RowEntry(index, "Missing required fields",
                                   MissingRequiredIn(acc.row)))]
    ELSE [out EXCEPT !.warnings = @ \o acc.warnings,
                     !.transformedData = Append(@, acc.row)]

\* the body of rows.forEach: reading a column of a null row throws, which the outer
\* catch turns into an error
RowBody(out, ms, row, index) ==
    IF row = NullRow /\ ms /= <<>>
    THEN [out EXCEPT !.errors = Append(@, RowEntry(index, "TypeError", <<>>))]
    ELSE RowOutcome(out, index,
            ApplyEach(ms, 1, row, index,
                      [ row |-> NewTransformedRow(index), hasValidData |-> FALSE,
                        warnings |-> <<>> ]))

\* rows.forEach, from the i-th row on
RECURSIVE ApplyRows(_, _, _, _)
ApplyRows(rows, ms, i, out) ==
    IF i > Len(rows) THEN out
    ELSE ApplyRows(rows, ms, i + 1, RowBody(out, ms, rows[i], i))

\* what applyMappings returns
ApplyResult(out) ==
    [ kind |-> "result", success |-> out.errors = <<>>,
      transformedData |-> out.transformedData,
      errors |-> out.errors, warnings |-> out.warnings ]

\* ColumnMapper.applyMappings(rows, mappings)
ApplyMappingsOf(rows, ms) ==
    ApplyResult(ApplyRows(rows, ms, 1,
                          [transformedData |-> <<>>, errors |-> <<>>, warnings |-> <<>>]))

MaxApplyRows == 2

NameColumn == <<"N", "a", "m", "e">>
RollColumn == <<"R", "o", "l", "l">>
MathColumn == <<" ", "M", "a", "t", "h">>

ApplyNameCells == { StrV(<<"A", "b">>), StrV(<<" ">>), Undef }
ApplyRollCells == { StrV(<<"r">>), NumV(N(7)), StrV(<<>>) }
ApplyMathCells == { NumV(N(50)), StrV(<<"x">>), StrV(<<"a", "b">>) }

ApplyRowPool ==
    { [h \in {NameColumn, RollColumn, MathColumn} |->
          IF h = NameColumn THEN n ELSE IF h = RollColumn THEN r ELSE m] :
        n \in ApplyNameCells, r \in ApplyRollCells, m \in ApplyMathCells }
    \cup { NullRow }

\* a mapping with the transformer of the caller in place of the one handed out
WithTransformer(mapping, transformer) == [mapping EXCEPT !.transformer = transformer]

\* the mapping lists: the one autoMapColumns builds for the three columns; the same
\* with marks that must be numbers; mappings without transformers; a roll number that
\* must be a number; the subject alone; none
ApplyMappingLists ==
    { << FieldMapping(NameColumn, "studentName"), FieldMapping(RollColumn, "rollNumber"),
         SubjectMapping(MathColumn) >>,
      << FieldMapping(NameColumn, "studentName"), FieldMapping(RollColumn, "rollNumber"),
         WithTransformer(SubjectMapping(MathColumn), "strict number") >>,
      << WithTransformer(FieldMapping(NameColumn, "studentName"), "undefined"),
         WithTransformer(FieldMapping(RollColumn, "rollNumber"), "undefined"),
         WithTransformer(FieldMapping(MathColumn, "class"), "number or 0") >>,
      << FieldMapping(NameColumn, "studentName"),
         WithTransformer(FieldMapping(RollColumn, "rollNumber"), "strict number"),
         SubjectMapping(MathColumn) >>,
      << SubjectMapping(MathColumn) >>,
      << >> }

\* ColumnMapper.applyMappings(rows, mappings)
ApplyMappings ==
    /\ applied = NoResult
    /\ applied' = ApplyMappingsOf(applyRows, applyMaps)
    /\ UNCHANGED <<applyRows, applyMaps, voVars, resVars, valVars, exVars,
                   mapVars, parseVars, calcVars, portVars>>

InitApply ==
    /\ IdleVO /\ IdleRes /\ IdleVal /\ IdleEx /\ IdleMap /\ IdleParse /\ IdleCalc /\ IdlePorts
    /\ applyRows \in UNION { [1..k -> ApplyRowPool] : k \in 0..MaxApplyRows }
    /\ applyMaps \in ApplyMappingLists
    /\ applied = NoResult

NextApply == ApplyMappings

\* one call of applyMappings on a list of rows and a list of mappings
SpecApply == InitApply /\ [][NextApply]_vars

\* the records of the output that were made from the i-th row
RecordsOf(i) ==
    { k \in DOMAIN applied.transformedData : applied.transformedData[k].originalRow = i }

\* a warning, or an error, names the i-th row
HasWarning(i) == \E w \in DOMAIN applied.warnings : applied.warnings[w].row = i
HasError(i) == \E e \in DOMAIN applied.errors : applied.errors[e].row = i

\* some mapping's transformer throws on the i-th row
TransformerThrows(i) ==
    /\ applyRows[i] /= NullRow
    /\ \E k \in DOMAIN applyMaps :
          ApplyTransformer(applyMaps[k].transformer,
                           CellOf(applyRows[i], applyMaps[k].excelColumn)).threw

\* C22: a row for which a mapping's transformer throws is not in the transformed
\* output and a warning names it; the call is not aborted: every row comes out as
\* applyMappings on that row alone leaves it.
C22_ThrowingRowRemoved ==
    applied /= NoResult =>
        /\ \A i \in DOMAIN applyRows :
              TransformerThrows(i) => (RecordsOf(i) = {} /\ HasWarning(i))
        /\ \A i \in DOMAIN applyRows :
              Cardinality(RecordsOf(i))
                  = Len(ApplyMappingsOf(<<applyRows[i]>>, applyMaps).transformedData)

\* a value that is there and is not the empty string
NonEmpty(v) == v /= Undef /\ v /= StrV(<<>>)

\* C29: each input row yields either exactly one transformed record, which carries a
\* non-empty studentName and a non-empty rollNumber, or no record and at least one
\* warning or error that names the row.
C29_RecordOrNotice ==
    applied /= NoResult =>
        \A i \in DOMAIN applyRows :
            \/ /\ Cardinality(RecordsOf(i)) = 1
               /\ \A k \in RecordsOf(i) :
                     /\ NonEmpty(applied.transformedData[k].studentName)
                     /\ NonEmpty(applied.transformedData[k].rollNumber)
            \/ /\ RecordsOf(i) = {}
               /\ HasWarning(i) \/ HasError(i)

\* of two rows the first was left out for its empty roll number, with a warning, and
\* the second came out as a record
C29_Witness ==
    /\ applied /= NoResult
    /\ Len(applyRows) = 2
    /\ applyRows[1] /= NullRow /\ applyRows[1][RollColumn] = StrV(<<>>)
    /\ RecordsOf(1) = {} /\ HasWarning(1)
    /\ Cardinality(RecordsOf(2)) = 1

(***************************************************************************)
(* UploadResultUseCase.execute on MockStorageService and MockAuthService   *)
(***************************************************************************)
\* MockAuthService.initializeDemoUsers: the ids
DemoUserIds == {"teacher1", "admin1"}

\* MockAuthService.signIn with the credentials of a demo user
SignIn ==
    /\ \E u \in DemoUserIds : currentUser' = u
    /\ UNCHANGED <<files, quotas, uploads, reports, deleteCall,
                   voVars, resVars, valVars, exVars, mapVars, parseVars, calcVars, applyVars>>

\* MockAuthService.signOut
SignOut ==
    /\ currentUser /= NoUser
    /\ currentUser' = NoUser
    /\ UNCHANGED <<files, quotas, uploads, reports, deleteCall,
                   voVars, resVars, valVars, exVars, mapVars, parseVars, calcVars, applyVars>>

\* 10 * 1024 * 1024
MaxFileSize == 10485760

XlsxType == "application/vnd.openxmlformats-officedocument.spreadsheetml.sheet"
AllowedTypes == {XlsxType, "application/vnd.ms-excel", "text/csv"}

\* UploadResultUseCase.validateFile: the errors
ValidateFile(file) ==
    (IF file.size > MaxFileSize THEN <<"File size must be less than 10MB">> ELSE <<>>)
    \o (IF file.type \notin AllowedTypes
        THEN <<"Only Excel (.xlsx, .xls) and CSV files are allowed">> ELSE <<>>)

\* the used bytes of the user's entry of quotas, 0 without an entry
UsedBy(entries, userId) ==
    IF \E k \in DOMAIN entries : entries[k][1] = userId
    THEN entries[CHOOSE k \in DOMAIN entries : entries[k][1] = userId][2]
    ELSE 0

\* MockStorageService.updateQuota: used = Math.max(0, used + sizeChange)
UpdateQuota(entries, userId, sizeChange) ==
    IF \E k \in DOMAIN entries : entries[k][1] = userId
    THEN [k \in DOMAIN entries |->
            IF entries[k][1] = userId
            THEN <<userId, IF entries[k][2] + sizeChange > 0 THEN entries[k][2] + sizeChange
                           ELSE 0>>
            ELSE entries[k]]
    ELSE Append(entries, <<userId, IF sizeChange > 0 THEN sizeChange ELSE 0>>)

\* a file as MockStorageService keeps it; ids are drawn at random and taken to differ,
\* so a file is known by its place in the Map.  A name is the tuple of its parts, a
\* path the folder and the name.
MockFile(fileName, size, type, uploadedBy, path) ==
    [name |-> fileName, size |-> size, type |-> type, uploadedBy |-> uploadedBy, path |-> path]

\* what uploadFile returns, with the files and quotas it leaves
StoreAnswer(success, fs, qs) == [success |-> success, files |-> fs, quotas |-> qs]

\* MockStorageService.uploadFile(file, fileName, {folder, metadata: {uploadedBy}})
UploadFileOf(fs, qs, file, fileName, folder, uploadedBy) ==
    IF file.size > MaxFileSize THEN StoreAnswer(FALSE, fs, qs)
    ELSE IF \E k \in DOMAIN fs : fs[k].path = <<folder, fileName>> THEN StoreAnswer(FALSE, fs, qs)
    ELSE StoreAnswer(TRUE,
                Append(fs, MockFile(fileName, file.size, file.type, uploadedBy,
                                    <<folder, fileName>>)),
                UpdateQuota(qs, uploadedBy, file.size))

DemoFileSize1 == 2048
DemoFileSize2 == 1536

\* MockStorageService.initializeDemoFiles
DemoFiles ==
    << MockFile(<<"class_10_math_results.xlsx">>, DemoFileSize1, XlsxType, "teacher1",
                <<"teacher1/excel-files", <<"class_10_math_results.xlsx">>>>),
       MockFile(<<"science_midterm_2024.csv">>, DemoFileSize2, "text/csv", "teacher1",
                <<"teacher1/excel-files", <<"science_midterm_2024.csv">>>>) >>
DemoQuotas ==
    UpdateQuota(UpdateQuota(<<>>, "teacher1", DemoFileSize1), "teacher1", DemoFileSize2)

\* UploadResultUseCase.parseExcelFile: the placeholder returns no student and no subject
ParseExcelFile ==
    [ success |-> TRUE,
      data |-> [ students |-> <<>>, subjects |-> <<>>,
                 metadata |-> [totalRows |-> 0, validRows |-> 0, invalidRows |-> 0] ],
      errors |-> <<>>, warnings |-> <<>> ]

\* the roll numbers that stand at an earlier index too
DuplicateRolls(students) ==
    SelectSeq([i \in DOMAIN students |-> students[i].rollNumber],
              LAMBDA r : Cardinality({i \in DOMAIN students : students[i].rollNumber = r}) > 1)

\* UploadResultUseCase.validateParsedData
ValidateParsedData(data) ==
    [ errors |->
        (IF Len(data.students) = 0 THEN <<"No valid student data found">> ELSE <<>>)
        \o (IF Len(data.subjects) = 0 THEN <<"No subjects found in the file">> ELSE <<>>)
        \o (IF Len(data.students) < 1 THEN <<"At least 1 student record is required">>
            ELSE <<>>)
        \o (IF DuplicateRolls(data.students) /= <<>> THEN <<"Duplicate roll numbers found">>
            ELSE <<>>),
      warnings |->
        IF data.metadata.invalidRows > 0 THEN <<"rows were skipped due to invalid data">>
        ELSE <<>> ]

UploadResponse(success, errors, warnings) ==
    [success |-> success, errors |-> errors, warnings |-> warnings]

\* what execute returns, with the files and quotas the call leaves
Executed(resp, fs, qs) == [response |-> resp, files |-> fs, quotas |-> qs]

\* steps 5 to 7 of execute, from the parsed data and its validation on
AfterValidation(parsed, validation, stored) ==
    IF ~parsed.success
    THEN Executed(UploadResponse(FALSE, parsed.errors, parsed.warnings),
                  stored.files, stored.quotas)
    ELSE IF validation.errors /= <<>>
    THEN Executed(UploadResponse(FALSE, validation.errors, validation.warnings),
                  stored.files, stored.quotas)
    ELSE Executed(UploadResponse(TRUE, <<>>, validation.warnings),
                  stored.files, stored.quotas)

\* execute from the answer of storagePort.uploadFile on
AfterUpload(stored) ==
    IF ~stored.success
    THEN Executed(UploadResponse(FALSE, <<"Failed to upload file to storage">>, <<>>),
                  stored.files, stored.quotas)
    ELSE AfterValidation(ParseExcelFile, ValidateParsedData(ParseExcelFile.data), stored)

\* UploadResultUseCase.execute(request); now is what Date.now() answers
ExecuteOf(req, now, user, fs, qs) ==
    IF user = NoUser
    THEN Executed(UploadResponse(FALSE, <<"User not authenticated">>, <<>>), fs, qs)
    ELSE IF ValidateFile(req.file) /= <<>>
    THEN Executed(UploadResponse(FALSE, ValidateFile(req.file), <<>>), fs, qs)
    ELSE IF Trim(req.title) = <<>>
    THEN Executed(UploadResponse(FALSE, <<"Title is required">>, <<>>), fs, qs)
    ELSE AfterUpload(UploadFileOf(fs, qs, req.file, <<req.userId, now, req.file.name>>,
                                  "excel-files", req.userId))

MaxUploads == 2
MaxClock == 2

UploadFiles ==
    { [name |-> "marks.xlsx", size |-> s, type |-> t] :
        s \in {4096, MaxFileSize + 1}, t \in {XlsxType, "text/plain"} }
UploadRequests ==
    { [file |-> f, title |-> t, userId |-> u] :
        f \in UploadFiles, t \in {<<" ">>, <<"T">>}, u \in DemoUserIds }

\* the latest Date.now() an upload of the model was named with
RECURSIVE LastTime(_)
LastTime(fs) ==
    IF fs = <<>> THEN 1
    ELSE IF Len(fs[Len(fs)].name) = 3 /\ fs[Len(fs)].name[2] > LastTime(SubSeq(fs, 1, Len(fs) - 1))
         THEN fs[Len(fs)].name[2]
         ELSE LastTime(SubSeq(fs, 1, Len(fs) - 1))

\* useCase.execute(request): the whole call
UploadExecute ==
    /\ Len(uploads) < MaxUploads
    /\ \E req \in UploadRequests, now \in 1..MaxClock :
          /\ now >= LastTime(files)
          /\ \E done \in {ExecuteOf(req, now, currentUser, files, quotas)} :
                /\ uploads' = Append(uploads, done.response)
                /\ files' = done.files
                /\ quotas' = done.quotas
    /\ UNCHANGED <<currentUser, reports, deleteCall,
                   voVars, resVars, valVars, exVars, mapVars, parseVars, calcVars, applyVars>>

InitUpload ==
    /\ IdleVO /\ IdleRes /\ IdleVal /\ IdleEx /\ IdleMap /\ IdleParse /\ IdleCalc /\ IdleApply
    /\ currentUser = NoUser
    /\ files = DemoFiles
    /\ quotas = DemoQuotas
    /\ uploads = <<>>
    /\ reports = <<>>
    /\ deleteCall = NoResult

NextUpload ==
    \/ SignIn
    \/ SignOut
    \/ UploadExecute

\* a storage service and an auth service after construction; users sign in and out
\* and execute is called
SpecUpload == InitUpload /\ [][NextUpload]_vars

\* C27: a call of execute that returns success = false leaves the file store and the
\* quotas as they were before the call: the storage holds no file uploaded by it.
C27_FailedUploadStoresNothing ==
    [][(Len(uploads') > Len(uploads) /\ ~uploads'[Len(uploads')].success)
          => (files' = files /\ quotas' = quotas)]_vars

(***************************************************************************)
(* GenerateReportUseCase.deleteReport on MockReportRepository and          *)
(* MockAuthService.  Each await of the call is a point where other calls   *)
(* of the services run: the call is one action per answer it waits for.    *)
(***************************************************************************)
MaxReports == 2
MaxDeleteCalls == 2

\* the ids generateReportId draws; an id drawn is taken to differ from the stored ones
ReportIds == 1..MaxReports

\* this.reports.has(reportId), and the metadata of this.reports.get(reportId)
HasReport(stored, reportId) == \E k \in DOMAIN stored : stored[k].id = reportId
SummaryOf(stored, reportId) == stored[CHOOSE k \in DOMAIN stored : stored[k].id = reportId]

\* this.reports.delete(reportId)
MapDelete(stored, reportId) == SelectSeq(stored, LAMBDA r : r.id /= reportId)

\* MockReportRepository.saveReport: the report is stored under a new id with
\* metadata.createdBy = data.createdBy
SaveReport ==
    /\ Len(reports) < MaxReports
    /\ \E id \in ReportIds, createdBy \in DemoUserIds :
          /\ ~HasReport(reports, id)
          /\ reports' = Append(reports, [id |-> id, createdBy |-> createdBy])
    /\ UNCHANGED <<currentUser, files, quotas, uploads, deleteCall,
                   voVars, resVars, valVars, exVars, mapVars, parseVars, calcVars, applyVars>>

\* a call of deleteReport: the await it stands at ("returned" after its return), its
\* arguments, the user getCurrentUser answered, its response, and the calls made so far
DeleteCall(step, reportId, userId, user, resp, n) ==
    [ kind |-> "call", step |-> step, reportId |-> reportId, userId |-> userId,
      user |-> user, response |-> resp, n |-> n ]
DeleteResponse(success, error) == [kind |-> "response", success |-> success, error |-> error]

\* the call with its return value
ReturnedWith(call, resp) == [call EXCEPT !.step = "returned", !.response = resp]

\* useCase.deleteReport(reportId, userId) is called and awaits authPort.getCurrentUser()
DeleteReport ==
    /\ IF deleteCall = NoResult THEN TRUE ELSE deleteCall.step = "returned"
    /\ (IF deleteCall = NoResult THEN 0 ELSE deleteCall.n) < MaxDeleteCalls
    /\ \E reportId \in ReportIds, userId \in DemoUserIds :
          deleteCall' = DeleteCall("getCurrentUser", reportId, userId, NoUser, NoResult,
                                   (IF deleteCall = NoResult THEN 0 ELSE deleteCall.n) + 1)
    /\ UNCHANGED <<currentUser, files, quotas, uploads, reports,
                   voVars, resVars, valVars, exVars, mapVars, parseVars, calcVars, applyVars>>

\* getCurrentUser answers: if (!user || user.id !== userId) return; the call then
\* awaits reportRepositoryPort.getReportSummary(reportId)
VerifyUser ==
    /\ deleteCall /= NoResult /\ deleteCall.step = "getCurrentUser"
    /\ deleteCall' =
          IF currentUser = NoUser \/ currentUser /= deleteCall.userId
          THEN ReturnedWith([deleteCall EXCEPT !.user = currentUser],
                            DeleteResponse(FALSE, "User not authenticated or unauthorized"))
          ELSE [deleteCall EXCEPT !.user = currentUser, !.step = "getReportSummary"]
    /\ UNCHANGED <<currentUser, files, quotas, uploads, reports,
                   voVars, resVars, valVars, exVars, mapVars, parseVars, calcVars, applyVars>>

\* getReportSummary answers: the report must exist and be created by userId; the call
\* then awaits reportRepositoryPort.deleteReport(reportId)
VerifyOwnership ==
    /\ deleteCall /= NoResult /\ deleteCall.step = "getReportSummary"
    /\ deleteCall' =
          IF ~HasReport(reports, deleteCall.reportId)
          THEN ReturnedWith(deleteCall, DeleteResponse(FALSE, "Report not found"))
          ELSE IF SummaryOf(reports, deleteCall.reportId).createdBy /= deleteCall.userId
          THEN ReturnedWith(deleteCall,
                            DeleteResponse(FALSE, "Unauthorized to delete this report"))
          ELSE [deleteCall EXCEPT !.step = "deleteReport"]
    /\ UNCHANGED <<currentUser, files, quotas, uploads, reports,
                   voVars, resVars, valVars, exVars, mapVars, parseVars, calcVars, applyVars>>

\* MockReportRepository.deleteReport answers, and the call returns its answer
RepositoryDeleteReport ==
    /\ deleteCall /= NoResult /\ deleteCall.step = "deleteReport"
    /\ deleteCall' =
          ReturnedWith(deleteCall,
              IF HasReport(reports, deleteCall.reportId) THEN DeleteResponse(TRUE, "")
              ELSE DeleteResponse(FALSE, "Report not found"))
    /\ reports' = MapDelete(reports, deleteCall.reportId)
    /\ UNCHANGED <<currentUser, files, quotas, uploads,
                   voVars, resVars, valVars, exVars, mapVars, parseVars, calcVars, applyVars>>

InitReport ==
    /\ IdleVO /\ IdleRes /\ IdleVal /\ IdleEx /\ IdleMap /\ IdleParse /\ IdleCalc /\ IdleApply
    /\ currentUser = NoUser
    /\ files = DemoFiles
    /\ quotas = DemoQuotas
    /\ uploads = <<>>
    /\ reports = <<>>
    /\ deleteCall = NoResult

NextReport ==
    \/ SignIn
    \/ SignOut
    \/ SaveReport
    \/ DeleteReport
    \/ VerifyUser
    \/ VerifyOwnership
    \/ RepositoryDeleteReport

\* a repository and an auth service after construction; reports are saved, users sign
\* in and out, and deleteReport is called, one call at a time
SpecReport == InitReport /\ [][NextReport]_vars

\* the step takes a report out of the repository
Removes == \E k \in DOMAIN reports : ~HasReport(reports', reports[k].id)

\* the step is the return of the call of deleteReport
Returns == deleteCall /= NoResult /\ deleteCall.step /= "returned" /\ deleteCall'.step = "returned"

\* C28: deleteReport takes a report out of the repository only if the user signed in
\* at that moment has the id userId and the report was created by userId; a call that
\* returns success = false leaves the repository as it was, and a call returns
\* success = true only by removing the report.
C28_DeleteOnlyByOwnerSignedIn ==
    [][/\ Removes =>
             /\ currentUser = deleteCall.userId
             /\ SummaryOf(reports, deleteCall.reportId).createdBy = deleteCall.userId
             /\ ~HasReport(reports', deleteCall.reportId)
       /\ (Returns /\ ~deleteCall'.response.success) => reports' = reports
       /\ (Returns /\ deleteCall'.response.success) => Removes]_vars

====
